---- MODULE Spec2Model ----
(***************************************************************************)
(* Server-authoritative Pomodoro timer and scoring engine.                 *)
(*                                                                         *)
(* Model of pomodoro_app/main/api_routes.py (the timer endpoints),         *)
(* pomodoro_app/main/logic.py (multiplier and streak functions) and        *)
(* pomodoro_app/models.py (the three tables the endpoints touch).          *)
(*                                                                         *)
(* Time is an integer number of seconds; instant 0 is 00:00:00 UTC of day  *)
(* 0.  A multiplier is an integer number of hundredths (1.1 is 110): every *)
(* bonus of the code is a multiple of 0.1 and the code rounds the sum to   *)
(* two decimals.  A request is executed in steps: the handler's entry      *)
(* (input validation, reading the clock), each SELECT ... FOR UPDATE, and  *)
(* the rest of the handler up to its response (which commits or rolls      *)
(* back and so releases the row locks).  ORM objects are request-local     *)
(* snapshots taken by the SELECTs; a commit writes the snapshot's changed  *)
(* columns back.                                                           *)
(***************************************************************************)
EXTENDS Integers, Sequences, FiniteSets, TLC

VARIABLES
    now,            \* the wall clock, datetime.now(timezone.utc)
    ticks,          \* number of clock steps taken so far
    users,          \* table users: id -> the points and streak columns
    active_timers,  \* table active_timers: a set of rows
    sessions,       \* table sessions: the ledger, in insertion order
    req,            \* the requests in flight: handler position and locals
    userLock,       \* users row lock: user id -> holder
    timerLock,      \* active_timers row lock: user id -> holder
    response,       \* the response sent by the latest step, if any
    points_per_minute,  \* app.config['POINTS_PER_MINUTE']
    pause_log,      \* history (kept under SpecPause only): user id -> instant
                    \* of the pause last answered pause_recorded on the
                    \* user's timer and not resumed since
    evaluated,      \* the latest direct evaluation of logic.py's multiplier
                    \* functions (SpecLogic only): inputs and results
    reset_log       \* history (kept under SpecRace only): request -> "raced"
                    \* for a complete_phase in flight since before a reset of
                    \* its user deleted the timer row, no start of the user
                    \* having committed since; "answered" once it has answered

vars == <<now, ticks, users, active_timers, sessions, req, userLock, timerLock,
          response, points_per_minute, pause_log, evaluated, reset_log>>

(***************************************************************************)
(* Bounds and input sets                                                   *)
(***************************************************************************)
MaxTicks == 3
MaxLatency == 1
ConfigTicks == 2
CrossTicks == 1
\* The phases an uninterrupted run is followed for.
ChainTicks == 8

Users == {1}
\* The users of the two-user specification SpecCross.
AllUsers == {1, 2}
Reqs == {"r1", "r2"}
NoReq == "none"
SlotBefore(r1, r2) == r1 = "r1" /\ r2 = "r2"

TickSteps == {1, 57, 7198}
\* JSON values of a request body: a number (whole part and tenths), a
\* number too large for a double (1e999, which json.loads reads as infinity),
\* a string, null, or no value at all (the key is missing).
JInt(n) == [kind |-> "int", num |-> n, tenths |-> 0]
JFloat(n, t) == [kind |-> "float", num |-> n, tenths |-> t]
JInfinity == [kind |-> "infinity", num |-> 0, tenths |-> 0]
JString == [kind |-> "string", num |-> 0, tenths |-> 0]
JNull == [kind |-> "null", num |-> 0, tenths |-> 0]
Absent == [kind |-> "absent", num |-> 0, tenths |-> 0]

\* The bodies of POST /api/timer/start that are tried.
Body(work, brk) == [work |-> work, brk |-> brk]
StartInputs ==
    {Body(JInt(120), JInt(1)), Body(JFloat(120, 5), JInt(1)),
     Body(JInt(0), JInt(1)), Body(JInt(120), JInt(0)),
     Body(Absent, JInt(1)), Body(JString, JInt(1)),
     Body(JInt(120), JNull), Body(JInfinity, JInt(1))}
\* The one start body the users of SpecCross send, and the one step of its
\* clock (to the end of the work phase, within the grace period).
CrossInputs == {Body(JInt(120), JInt(1))}
CrossSteps == {7198}
PhaseInputs == {"work", "break", "coffee"}
\* The start body and the clock steps of the 30/5 scenario: to the end of
\* the work phase less the grace period, and one second.
ScenarioInputs == {Body(JInt(30), JInt(5))}
ScenarioSteps == {1, 1798}
\* The timers of the uninterrupted runs: work and break together under two
\* hours, exactly two hours, and over two hours.
ChainInputs ==
    {Body(JInt(25), JInt(5)), Body(JInt(60), JInt(60)),
     Body(JInt(120), JInt(1)), Body(JInt(1), JInt(120))}
PointsPerMinuteValues == {10}

\* Inputs of the direct evaluations of logic.py: streak lengths, durations,
\* the instant of the evaluation (01:00 of day 2) and the minutes and age
\* (in seconds) of the ledger rows the user has.
StreakInputs == {1, 2, 3, 4, 5, 7, 10, 14, 20, 30}
WorkMinuteInputs == {0, 25, 26, 45, 46, 50, 60, 61, 90, 91}
BreakMinuteInputs == {0, 5, 10, 11}
EvaluationInstant == 176400
LedgerInputs ==
    {<<>>, <<[work |-> 120, age |-> 60]>>, <<[work |-> 119, age |-> 60]>>,
     <<[work |-> 120, age |-> 3601]>>,
     <<[work |-> 60, age |-> 3600], [work |-> 60, age |-> 1800]>>}
ConfigInputs == {-5, 0, 10}

\* Inputs of the direct calls of update_streaks: the instant of the work
\* completion (01:00 and 23:59:59 of day 3), the user's last completion as
\* an offset in seconds from it, and the streaks the user has.  A completion
\* reads the clock before it waits for its row locks, so the last committed
\* completion may have read the clock later than this one (offset 1), and
\* then on the next calendar day when this one read it at 23:59:59.
StreakInstants == {262800, 345599}
LastSessionOffsets == {-259200, -172800, -86400, -7201, -7200, -3601, -60, 0, 1}
StreakLengths == {1, 2, 6}

(***************************************************************************)
(* Program constants                                                       *)
(***************************************************************************)
NULL == -1
MAX_CONSISTENCY_GAP_HOURS == 2
DAILY_FOCUS_TARGET == 120
grace_period == 2
SecondsPerMinute == 60
SecondsPerHour == 3600
SecondsPerDay == 86400

(***************************************************************************)
(* Tables                                                                  *)
(***************************************************************************)
\* A freshly registered user: the column defaults of class User.
User == [total_points |-> 0,
         consecutive_sessions |-> 0,
         last_session_timestamp |-> NULL,
         daily_streak |-> 0,
         last_active_date |-> NULL]

\* A row of active_timers.
ActiveTimerState(user_id, phase, start_time, end_time, work, brk, mult) ==
    [user_id |-> user_id,
     phase |-> phase,
     start_time |-> start_time,
     end_time |-> end_time,
     work_duration_minutes |-> work,
     break_duration_minutes |-> brk,
     current_multiplier |-> mult]

\* Mutant: the ledger row records no points.
PomodoroSession_NoPoints(user_id, work, brk, points, timestamp) ==
    [user_id |-> user_id,
     work_duration |-> work,
     break_duration |-> brk,
     points_earned |-> 0,
     timestamp |-> timestamp]

\* A row of sessions.
PomodoroSession(user_id, work, brk, points, timestamp) ==
    [user_id |-> user_id,
     work_duration |-> work,
     break_duration |-> brk,
     points_earned |-> points,
     timestamp |-> timestamp]

\* ActiveTimerState.query.filter_by(user_id=u): the rows of user u.
TimerRows(u) == {t \in active_timers : t.user_id = u}

(***************************************************************************)
(* logic.py                                                                *)
(***************************************************************************)
\* now_utc.date(): the calendar day (UTC) of an instant.
DateOf(t) == t \div SecondsPerDay

\* datetime.now(utc).replace(hour=0, minute=0, second=0, microsecond=0)
today_start(clock) == DateOf(clock) * SecondsPerDay

RECURSIVE SumWork(_, _, _)
SumWork(log, u, since) ==
    IF log = <<>> THEN 0
    ELSE (IF Head(log).user_id = u /\ Head(log).timestamp >= since
          THEN Head(log).work_duration ELSE 0) + SumWork(Tail(log), u, since)

\* Mutant: the ledger query is not filtered by user.
today_focus_AnyUser(u, clock) ==
    SumWork(sessions, 1, today_start(clock))
        + SumWork(sessions, 2, today_start(clock))

\* coalesce(sum(PomodoroSession.work_duration), 0) over today's rows of u.
today_focus(u, clock) == SumWork(sessions, u, today_start(clock))

\* MULTIPLIER_RULES: rule id -> bonus, in hundredths.
MULTIPLIER_RULES ==
    [base |-> 0, focus25 |-> 10, focus45 |-> 20, consecutive3 |-> 10,
     consecutive5 |-> 20, daily3 |-> 10, daily7 |-> 20, focus60 |-> 30,
     focus90 |-> 50, consecutive10 |-> 30, consecutive20 |-> 50,
     daily14 |-> 30, daily30 |-> 50, dailyFocus120 |-> 10,
     balancedBreak |-> 10]

\* Mutant: only the highest duration tier counts.
DurationBonus_HighestTier(work) ==
    IF work > 90 THEN 50
    ELSE IF work > 60 THEN 30
    ELSE IF work > 45 THEN 20
    ELSE IF work > 25 THEN 10
    ELSE 0

\* The duration bonuses, in hundredths.
DurationBonus(work) ==
      (IF work > 25 THEN 10 ELSE 0)
    + (IF work > 45 THEN 20 ELSE 0)
    + (IF work > 60 THEN 30 ELSE 0)
    + (IF work > 90 THEN 50 ELSE 0)

\* Mutant: no bonus for a balanced break.
BalancedBreakBonus_Never(work, brk) == 0

\* break / work <= BALANCED_BREAK_RATIO (0.2), both positive.
BalancedBreakBonus(work, brk) ==
    IF work > 0 /\ brk > 0 /\ 5 * brk <= work THEN 10 ELSE 0

ConsecutiveBonus(n) ==
      (IF n >= 3 THEN 10 ELSE 0)
    + (IF n >= 5 THEN 20 ELSE 0)
    + (IF n >= 10 THEN 30 ELSE 0)
    + (IF n >= 20 THEN 50 ELSE 0)

DailyBonus(n) ==
      (IF n >= 3 THEN 10 ELSE 0)
    + (IF n >= 7 THEN 20 ELSE 0)
    + (IF n >= 14 THEN 30 ELSE 0)
    + (IF n >= 30 THEN 50 ELSE 0)

DailyFocusBonus(focus) == IF focus >= DAILY_FOCUS_TARGET THEN 10 ELSE 0

\* Mutant: the bonuses without the base of 1.0.
calculate_current_multiplier_BonusOnly(user, u, work, brk, clock) ==
    DurationBonus(work)
        + BalancedBreakBonus(work, brk)
        + ConsecutiveBonus(user.consecutive_sessions)
        + DailyBonus(user.daily_streak)
        + DailyFocusBonus(today_focus(u, clock))

\* calculate_current_multiplier(user, work, break), with the ledger read
\* (today's focus minutes of user u) made at instant clock.
calculate_current_multiplier(user, u, work, brk, clock) ==
    100 + DurationBonus(work)
        + BalancedBreakBonus(work, brk)
        + ConsecutiveBonus(user.consecutive_sessions)
        + DailyBonus(user.daily_streak)
        + DailyFocusBonus(today_focus(u, clock))

\* Mutant: the balanced-break rule is missing from the displayed rules.
get_active_multiplier_rules_NoBalancedBreak(user, u, work, brk, clock) ==
    {"base"}
    \cup (IF work > 25 THEN {"focus25"} ELSE {})
    \cup (IF work > 45 THEN {"focus45"} ELSE {})
    \cup (IF work > 60 THEN {"focus60"} ELSE {})
    \cup (IF work > 90 THEN {"focus90"} ELSE {})
    \cup (IF user.consecutive_sessions >= 3 THEN {"consecutive3"} ELSE {})
    \cup (IF user.consecutive_sessions >= 5 THEN {"consecutive5"} ELSE {})
    \cup (IF user.consecutive_sessions >= 10 THEN {"consecutive10"} ELSE {})
    \cup (IF user.consecutive_sessions >= 20 THEN {"consecutive20"} ELSE {})
    \cup (IF user.daily_streak >= 3 THEN {"daily3"} ELSE {})
    \cup (IF user.daily_streak >= 7 THEN {"daily7"} ELSE {})
    \cup (IF user.daily_streak >= 14 THEN {"daily14"} ELSE {})
    \cup (IF user.daily_streak >= 30 THEN {"daily30"} ELSE {})
    \cup (IF today_focus(u, clock) >= DAILY_FOCUS_TARGET
          THEN {"dailyFocus120"} ELSE {})

\* get_active_multiplier_rules(user, work, break), with the ledger read made
\* at instant clock: the ids of the rules that apply.
get_active_multiplier_rules(user, u, work, brk, clock) ==
    {"base"}
    \cup (IF work > 25 THEN {"focus25"} ELSE {})
    \cup (IF work > 45 THEN {"focus45"} ELSE {})
    \cup (IF work > 60 THEN {"focus60"} ELSE {})
    \cup (IF work > 90 THEN {"focus90"} ELSE {})
    \cup (IF work > 0 /\ brk > 0 /\ 5 * brk <= work
          THEN {"balancedBreak"} ELSE {})
    \cup (IF user.consecutive_sessions >= 3 THEN {"consecutive3"} ELSE {})
    \cup (IF user.consecutive_sessions >= 5 THEN {"consecutive5"} ELSE {})
    \cup (IF user.consecutive_sessions >= 10 THEN {"consecutive10"} ELSE {})
    \cup (IF user.consecutive_sessions >= 20 THEN {"consecutive20"} ELSE {})
    \cup (IF user.daily_streak >= 3 THEN {"daily3"} ELSE {})
    \cup (IF user.daily_streak >= 7 THEN {"daily7"} ELSE {})
    \cup (IF user.daily_streak >= 14 THEN {"daily14"} ELSE {})
    \cup (IF user.daily_streak >= 30 THEN {"daily30"} ELSE {})
    \cup (IF today_focus(u, clock) >= DAILY_FOCUS_TARGET
          THEN {"dailyFocus120"} ELSE {})

\* update_streaks(user, now_utc): the daily streak part.
DailyStreakUpdate(user, now_utc) ==
    LET today_utc == DateOf(now_utc)
    IN  IF user.last_active_date # today_utc
        THEN IF user.last_active_date # NULL
             THEN LET days_diff == today_utc - user.last_active_date
                  IN  [user EXCEPT
                         !.daily_streak =
                             IF days_diff = 1 THEN @ + 1
                             ELSE IF days_diff > 1 THEN 1
                             ELSE @,
                         !.last_active_date = today_utc]
             ELSE [user EXCEPT !.daily_streak = 1,
                               !.last_active_date = today_utc]
        ELSE user

\* Mutant: a gap of exactly two hours breaks the consistency streak.
ConsistencyStreakUpdate_StrictGap(user, now_utc) ==
    LET continued ==
            /\ user.last_session_timestamp # NULL
            /\ now_utc - user.last_session_timestamp
                   < MAX_CONSISTENCY_GAP_HOURS * SecondsPerHour
    IN  [user EXCEPT
           !.consecutive_sessions = IF continued THEN @ + 1 ELSE 1,
           !.last_session_timestamp = now_utc]

\* update_streaks(user, now_utc): the consistency streak part.
ConsistencyStreakUpdate(user, now_utc) ==
    LET continued ==
            /\ user.last_session_timestamp # NULL
            /\ now_utc - user.last_session_timestamp
                   <= MAX_CONSISTENCY_GAP_HOURS * SecondsPerHour
    IN  [user EXCEPT
           !.consecutive_sessions = IF continued THEN @ + 1 ELSE 1,
           !.last_session_timestamp = now_utc]

\* Mutant: the streak update is left out.
update_streaks_Skipped(user, now_utc) == user

update_streaks(user, now_utc) ==
    ConsistencyStreakUpdate(DailyStreakUpdate(user, now_utc), now_utc)

(***************************************************************************)
(* Points                                                                  *)
(***************************************************************************)
\* round(n / d) as Python rounds (ties go to the even integer), n, d >= 0.
RoundDiv(n, d) ==
    LET q == n \div d
        r == n % d
    IN  IF 2 * r < d THEN q
        ELSE IF 2 * r > d THEN q + 1
        ELSE IF q % 2 = 0 THEN q ELSE q + 1

\* Mutant: the configured points_per_minute is used unchecked.
PointsEarned_Unchecked(minutes, ppm, multiplier) ==
    IF ppm >= 0
    THEN RoundDiv(minutes * ppm * multiplier, 100)
    ELSE 0 - RoundDiv(minutes * (0 - ppm) * multiplier, 100)

\* int(round(minutes * points_per_minute * multiplier)), or 0 when the
\* configured points_per_minute is not a non-negative number.
PointsEarned(minutes, ppm, multiplier) ==
    IF ppm >= 0
    THEN RoundDiv(minutes * ppm * multiplier, 100)
    ELSE 0

(***************************************************************************)
(* Requests and responses                                                  *)
(***************************************************************************)
\* A request slot with no request in it.
IdleReq == [pc |-> "idle", op |-> "none", user_id |-> 0, arrived |-> NULL,
            now_utc |-> NULL, work |-> 0, brk |-> 0,
            user |-> User, mult |-> 0, state |-> {}]

\* jsonify({...}), code: the keys the timer endpoints use.  timer is the
\* body of GET /api/timer/state and {} elsewhere.
Resp(r, op, code, status, total_points, end_time, active_multiplier, remaining) ==
    [req |-> r, op |-> op, code |-> code, status |-> status,
     total_points |-> total_points, end_time |-> end_time,
     active_multiplier |-> active_multiplier, remaining |-> remaining,
     timer |-> {}]

NoResponse == Resp(NoReq, "none", 0, "", NULL, NULL, NULL, NULL)

\* No evaluation of the multiplier functions has been made.
NoEvaluation ==
    [user_id |-> 0, consecutive_sessions |-> 0, daily_streak |-> 0,
     work |-> 0, brk |-> 0, today_focus |-> 0, multiplier |-> 0, rules |-> {}]

\* What a handler leaves behind: the three tables and its response.
Outcome(us, ts, ss, rs) ==
    [users |-> us, active_timers |-> ts, sessions |-> ss, response |-> rs]

\* db.session.rollback() in the except branches: nothing is written.
Rollback(rs) == Outcome(users, active_timers, sessions, rs)

\* The UPDATE of a loaded active_timers row; it fails (StaleDataError) when
\* the row is gone.
UpdateTimerOk(u) == TimerRows(u) # {}

\* The INSERT of an active_timers row; user_id is the primary key, so it
\* fails (IntegrityError) when the user has a row.
InsertTimerOk(u) == TimerRows(u) = {}

\* Mutant: the SELECTs run without with_for_update(), nobody waits.
RowLockFree_NoForUpdate(holder) == TRUE

\* A row lock taken by with_for_update() is granted when nobody holds it.
RowLockFree(holder) == holder = NoReq

InFlight(r) == req[r].pc # "idle"

(***************************************************************************)
(* api_routes.py: the handlers, from the last SELECT to the response       *)
(***************************************************************************)
\* Mutant: start adds its row without looking for the one the user has.
api_start_timer_AlwaysInsert(r) ==
    LET q == req[r]
        end_time_utc == q.now_utc + q.work * SecondsPerMinute
    IN  Outcome(users,
                active_timers \cup {ActiveTimerState(q.user_id, "work", q.now_utc,
                                        end_time_utc, q.work, q.brk, q.mult)},
                sessions,
                Resp(r, "start", 200, "timer_started", q.user.total_points,
                     end_time_utc, q.mult, NULL))

\* api_start_timer, after both SELECTs.
api_start_timer(r) ==
    LET q == req[r]
        u == q.user_id
        end_time_utc == q.now_utc + q.work * SecondsPerMinute
        new_state == ActiveTimerState(u, "work", q.now_utc, end_time_utc,
                                      q.work, q.brk, q.mult)
        ok == Resp(r, "start", 200, "timer_started", q.user.total_points,
                   end_time_utc, q.mult, NULL)
        failed == Resp(r, "start", 500, "error_database", NULL, NULL, NULL, NULL)
    IN  IF q.state # {}
        THEN IF UpdateTimerOk(u)
             THEN Outcome(users, (active_timers \ TimerRows(u)) \cup {new_state},
                          sessions, ok)
             ELSE Rollback(failed)
        ELSE IF InsertTimerOk(u)
             THEN Outcome(users, active_timers \cup {new_state}, sessions, ok)
             ELSE Rollback(failed)

\* Mutant: the grace period is left out.
TooEarly_NoGrace(now_utc, end_time) == now_utc < end_time

\* now_utc < end_time - grace_period: the phase is not over yet.
TooEarly(now_utc, end_time) == now_utc < end_time - grace_period

\* Mutant: the client's phase is taken at its word.
CorrectedPhase_TrustClient(phase_completed, server_phase) == phase_completed

\* The phase the handler acts on: the stored one when the client disagrees.
CorrectedPhase(phase_completed, server_phase) ==
    IF server_phase # phase_completed THEN server_phase ELSE phase_completed

\* Mutant: work is paid at the base rate.
WorkMultiplier_Base(server_state) == 100

\* The multiplier a work completion pays with: the stored one.
WorkMultiplier(server_state) == server_state.current_multiplier

\* Mutant: breaks are paid at the base rate.
BreakMultiplier_Base(server_state) == 100

\* The multiplier a break completion pays with: the stored one.
BreakMultiplier(server_state) == server_state.current_multiplier

\* Mutant: the work branch commits without its log entry.
CompleteWork_NoLogEntry(r, server_state) ==
    LET q == req[r]
        u == q.user_id
        final_multiplier == WorkMultiplier(server_state)
        new_total_points ==
            q.user.total_points
              + PointsEarned(server_state.work_duration_minutes,
                             points_per_minute, final_multiplier)
        break_end_time_utc ==
            q.now_utc + server_state.break_duration_minutes * SecondsPerMinute
    IN  IF UpdateTimerOk(u)
        THEN Outcome([users EXCEPT ![u] =
                         [update_streaks(q.user, q.now_utc)
                              EXCEPT !.total_points = new_total_points]],
                     (active_timers \ TimerRows(u))
                        \cup {[server_state EXCEPT
                                   !.phase = "break",
                                   !.start_time = q.now_utc,
                                   !.end_time = break_end_time_utc,
                                   !.current_multiplier = final_multiplier]},
                     sessions,
                     Resp(r, "complete", 200, "break_started", new_total_points,
                          break_end_time_utc, final_multiplier, NULL))
        ELSE Rollback(Resp(r, "complete", 500, "error_database",
                           users[u].total_points, NULL, NULL, NULL))

\* The work branch of api_complete_phase.
CompleteWork(r, server_state) ==
    LET q == req[r]
        u == q.user_id
        planned_work_duration == server_state.work_duration_minutes
        final_multiplier == WorkMultiplier(server_state)
        points_earned_this_phase ==
            PointsEarned(planned_work_duration, points_per_minute, final_multiplier)
        new_total_points == q.user.total_points + points_earned_this_phase
        user == [update_streaks(q.user, q.now_utc)
                     EXCEPT !.total_points = new_total_points]
        work_start_time == server_state.start_time
        log_entry == PomodoroSession(u, planned_work_duration,
                         server_state.break_duration_minutes,
                         points_earned_this_phase,
                         IF work_start_time # NULL THEN work_start_time
                                                   ELSE q.now_utc)
        break_end_time_utc ==
            q.now_utc + server_state.break_duration_minutes * SecondsPerMinute
        new_state == [server_state EXCEPT !.phase = "break",
                                          !.start_time = q.now_utc,
                                          !.end_time = break_end_time_utc,
                                          !.current_multiplier = final_multiplier]
    IN  IF UpdateTimerOk(u)
        THEN Outcome([users EXCEPT ![u] = user],
                     (active_timers \ TimerRows(u)) \cup {new_state},
                     Append(sessions, log_entry),
                     Resp(r, "complete", 200, "break_started", new_total_points,
                          break_end_time_utc, final_multiplier, NULL))
        ELSE Rollback(Resp(r, "complete", 500, "error_database",
                           users[u].total_points, NULL, NULL, NULL))

\* Mutant: the next work phase keeps the multiplier of the last one.
NextMultiplier_Inherited(user, u, server_state) == server_state.current_multiplier

\* The multiplier of the work phase that a break completion starts.
NextMultiplier(user, u, server_state) ==
    calculate_current_multiplier(user, u, server_state.work_duration_minutes,
                                 server_state.break_duration_minutes, now)

\* Mutant: a break completion runs the streak update as well.
CompleteBreak_WithStreaks(r, server_state) ==
    LET q == req[r]
        u == q.user_id
        new_total_points ==
            q.user.total_points
              + PointsEarned(server_state.break_duration_minutes,
                             points_per_minute, BreakMultiplier(server_state))
        user == [update_streaks(q.user, q.now_utc)
                     EXCEPT !.total_points = new_total_points]
        next_multiplier == NextMultiplier(user, u, server_state)
        work_end_time_utc ==
            q.now_utc + server_state.work_duration_minutes * SecondsPerMinute
    IN  Outcome([users EXCEPT ![u] = user],
                (active_timers \ TimerRows(u))
                    \cup {[server_state EXCEPT !.phase = "work",
                                               !.start_time = q.now_utc,
                                               !.end_time = work_end_time_utc,
                                               !.current_multiplier = next_multiplier]},
                sessions,
                Resp(r, "complete", 200, "work_started", new_total_points,
                     work_end_time_utc, next_multiplier, NULL))

\* The break branch of api_complete_phase.
CompleteBreak(r, server_state) ==
    LET q == req[r]
        u == q.user_id
        planned_break_duration == server_state.break_duration_minutes
        inherited_multiplier == BreakMultiplier(server_state)
        points_earned_this_phase ==
            PointsEarned(planned_break_duration, points_per_minute,
                         inherited_multiplier)
        new_total_points == q.user.total_points + points_earned_this_phase
        user == [q.user EXCEPT !.total_points = new_total_points]
        work_minutes == server_state.work_duration_minutes
        next_multiplier == NextMultiplier(user, u, server_state)
        work_end_time_utc == q.now_utc + work_minutes * SecondsPerMinute
        new_state == [server_state EXCEPT !.phase = "work",
                                          !.start_time = q.now_utc,
                                          !.end_time = work_end_time_utc,
                                          !.current_multiplier = next_multiplier]
    IN  IF UpdateTimerOk(u)
        THEN Outcome([users EXCEPT ![u] = user],
                     (active_timers \ TimerRows(u)) \cup {new_state},
                     sessions,
                     Resp(r, "complete", 200, "work_started", new_total_points,
                          work_end_time_utc, next_multiplier, NULL))
        ELSE Rollback(Resp(r, "complete", 500, "error_database",
                           users[u].total_points, NULL, NULL, NULL))

\* Mutant: a completion without a timer row is answered with 0 points.
AcknowledgeNoState_ZeroPoints(r) ==
    Rollback(Resp(r, "complete", 200, "acknowledged_no_state",
                  0, NULL, NULL, NULL))

\* The answer of api_complete_phase when the user has no timer row.
AcknowledgeNoState(r) ==
    Rollback(Resp(r, "complete", 200, "acknowledged_no_state",
                  req[r].user.total_points, NULL, NULL, NULL))

\* Mutant: the end of the phase is not compared with the clock.
api_complete_phase_NoClockCheck(r, phase_completed) ==
    LET q == req[r]
        u == q.user_id
    IN  IF q.state = {}
        THEN AcknowledgeNoState(r)
        ELSE LET server_state == CHOOSE t \in q.state : TRUE
             IN  IF server_state.end_time = NULL
                 THEN Outcome(users, active_timers \ TimerRows(u), sessions,
                              Resp(r, "complete", 500, "error_inconsistent",
                                   q.user.total_points, NULL, NULL, NULL))
                 ELSE LET phase == CorrectedPhase(phase_completed,
                                                  server_state.phase)
                      IN  IF phase = "work" THEN CompleteWork(r, server_state)
                          ELSE IF phase = "break" THEN CompleteBreak(r, server_state)
                          ELSE Outcome(users, active_timers \ TimerRows(u), sessions,
                                       Resp(r, "complete", 400, "error_invalid_phase",
                                            q.user.total_points, NULL, NULL, NULL))

\* api_complete_phase, after both SELECTs, for the client's phase_completed.
api_complete_phase(r, phase_completed) ==
    LET q == req[r]
        u == q.user_id
    IN  IF q.state = {}
        THEN AcknowledgeNoState(r)
        ELSE LET server_state == CHOOSE t \in q.state : TRUE
             IN  IF server_state.end_time = NULL
                 THEN Outcome(users, active_timers \ TimerRows(u), sessions,
                              Resp(r, "complete", 500, "error_inconsistent",
                                   q.user.total_points, NULL, NULL, NULL))
                 ELSE IF TooEarly(q.now_utc, server_state.end_time)
                 THEN Rollback(Resp(r, "complete", 400, "error_too_early",
                                    q.user.total_points, NULL, NULL,
                                    server_state.end_time - q.now_utc))
                 ELSE LET phase == CorrectedPhase(phase_completed,
                                                  server_state.phase)
                      IN  IF phase = "work" THEN CompleteWork(r, server_state)
                          ELSE IF phase = "break" THEN CompleteBreak(r, server_state)
                          ELSE Outcome(users, active_timers \ TimerRows(u), sessions,
                                       Resp(r, "complete", 400, "error_invalid_phase",
                                            q.user.total_points, NULL, NULL, NULL))

\* Mutant: reset answers but its DELETE never reaches the table.
api_reset_timer_NoDelete(r) ==
    LET q == req[r]
    IN  IF q.state # {}
        THEN Rollback(Resp(r, "reset", 200, "reset_success",
                           NULL, NULL, NULL, NULL))
        ELSE Rollback(Resp(r, "reset", 200, "no_state_to_reset",
                           NULL, NULL, NULL, NULL))

\* api_reset_timer, after its SELECT.
api_reset_timer(r) ==
    LET q == req[r]
        u == q.user_id
    IN  IF q.state # {}
        THEN Outcome(users, active_timers \ TimerRows(u), sessions,
                     Resp(r, "reset", 200, "reset_success", NULL, NULL, NULL, NULL))
        ELSE Rollback(Resp(r, "reset", 200, "no_state_to_reset",
                           NULL, NULL, NULL, NULL))

\* Mutant: every attribute of the object is a column.
MappedColumns_WithPauseColumn(obj) == obj

\* The columns class ActiveTimerState maps: what a commit writes of an object.
MappedColumns(obj) ==
    ActiveTimerState(obj.user_id, obj.phase, obj.start_time, obj.end_time,
                     obj.work_duration_minutes, obj.break_duration_minutes,
                     obj.current_multiplier)

\* obj.name = value on a loaded object, mapped column or not.
SetAttr(obj, name, value) ==
    [a \in DOMAIN obj \cup {name} |-> IF a = name THEN value ELSE obj[a]]

\* Mutant: a pause breaks the consistency streak.
api_pause_timer_BreaksStreak(r) ==
    LET q == req[r]
        u == q.user_id
    IN  IF q.state = {}
        THEN Rollback(Resp(r, "pause", 404, "no_active_state",
                           NULL, NULL, NULL, NULL))
        ELSE Outcome([users EXCEPT ![u].consecutive_sessions = 0],
                     active_timers, sessions,
                     Resp(r, "pause", 200, "pause_recorded",
                          NULL, NULL, NULL, NULL))

\* api_pause_timer, after its SELECT.
api_pause_timer(r) ==
    LET q == req[r]
        u == q.user_id
    IN  IF q.state = {}
        THEN Rollback(Resp(r, "pause", 404, "no_active_state",
                           NULL, NULL, NULL, NULL))
        ELSE LET loaded == CHOOSE t \in q.state : TRUE
                 active_state == SetAttr(loaded, "pause_start_time", q.now_utc)
             IN  IF MappedColumns(active_state) = loaded
                 THEN Rollback(Resp(r, "pause", 200, "pause_recorded",
                                    NULL, NULL, NULL, NULL))
                 ELSE IF UpdateTimerOk(u)
                 THEN Outcome(users,
                              (active_timers \ TimerRows(u))
                                  \cup {MappedColumns(active_state)},
                              sessions,
                              Resp(r, "pause", 200, "pause_recorded",
                                   NULL, NULL, NULL, NULL))
                 ELSE Rollback(Resp(r, "pause", 500, "error_database",
                                    NULL, NULL, NULL, NULL))

\* Mutant: resume answers the missing end time and leaves the row.
api_resume_timer_KeepsCorruptRow(r) ==
    LET q == req[r]
    IN  IF q.state = {}
        THEN Rollback(Resp(r, "resume", 404, "no_active_state",
                           NULL, NULL, NULL, NULL))
        ELSE LET active_state == CHOOSE t \in q.state : TRUE
             IN  Rollback(Resp(r, "resume", 500,
                               IF active_state.end_time = NULL
                               THEN "error_inconsistent"
                               ELSE "error_unexpected",
                               NULL, NULL, NULL, NULL))

\* api_resume_timer, after its SELECT.
api_resume_timer(r) ==
    LET q == req[r]
        u == q.user_id
    IN  IF q.state = {}
        THEN Rollback(Resp(r, "resume", 404, "no_active_state",
                           NULL, NULL, NULL, NULL))
        ELSE LET active_state == CHOOSE t \in q.state : TRUE
             IN  IF active_state.end_time = NULL
                 THEN Outcome(users, active_timers \ TimerRows(u), sessions,
                              Resp(r, "resume", 500, "error_inconsistent",
                                   NULL, NULL, NULL, NULL))
                 ELSE IF "pause_start_time" \notin DOMAIN active_state
                 THEN \* AttributeError, caught by `except Exception`
                      Rollback(Resp(r, "resume", 500, "error_unexpected",
                                    NULL, NULL, NULL, NULL))
                 ELSE IF active_state.pause_start_time = NULL
                 THEN Rollback(Resp(r, "resume", 200, "resume_no_pause_found",
                                    NULL, active_state.end_time, NULL, NULL))
                 ELSE LET left == active_state.end_time
                                      - active_state.pause_start_time
                          remaining_duration == IF left < 0 THEN 0 ELSE left
                          new_end_time == q.now_utc + remaining_duration
                          resumed == [active_state EXCEPT
                                         !.start_time = q.now_utc,
                                         !.end_time = new_end_time,
                                         !.pause_start_time = NULL]
                      IN  IF UpdateTimerOk(u)
                          THEN Outcome(users,
                                       (active_timers \ TimerRows(u))
                                           \cup {MappedColumns(resumed)},
                                       sessions,
                                       Resp(r, "resume", 200, "resume_success",
                                            NULL, new_end_time, NULL, NULL))
                          ELSE Rollback(Resp(r, "resume", 500, "error_database",
                                             NULL, NULL, NULL, NULL))

(***************************************************************************)
(* The state machine                                                       *)
(***************************************************************************)
Init ==
    /\ now = 0
    /\ ticks = 0
    /\ users = [u \in Users |-> User]
    /\ active_timers = {}
    /\ sessions = <<>>
    /\ req = [r \in Reqs |-> IdleReq]
    /\ userLock = [u \in Users |-> NoReq]
    /\ timerLock = [u \in Users |-> NoReq]
    /\ response = NoResponse
    /\ points_per_minute \in PointsPerMinuteValues
    /\ pause_log = [u \in Users |-> NULL]
    /\ evaluated = NoEvaluation
    /\ reset_log = [r \in Reqs |-> ""]

\* The slot a new request takes: the first free one (slots are anonymous).
FreeSlot(r) ==
    /\ req[r].pc = "idle"
    /\ \A r2 \in Reqs : req[r2].pc = "idle" => ~SlotBefore(r2, r)

\* A request enters its handler: the clock is read, nothing is locked yet.
Enter(r, u, op, now_utc, work, brk) ==
    req' = [req EXCEPT ![r] =
              [IdleReq EXCEPT !.pc = "begun", !.op = op, !.user_id = u,
                              !.arrived = now, !.now_utc = now_utc,
                              !.work = work, !.brk = brk]]

\* int(x) of Python on a JSON value: a float is truncated toward zero, an
\* infinite float raises OverflowError, a non-numeric string ValueError and
\* None TypeError.
int(x) ==
    CASE x.kind = "int" -> [raised |-> "", value |-> x.num]
      [] x.kind = "float" -> [raised |-> "", value |-> x.num]
      [] x.kind = "infinity" -> [raised |-> "OverflowError", value |-> 0]
      [] x.kind = "string" -> [raised |-> "ValueError", value |-> 0]
      [] OTHER -> [raised |-> "TypeError", value |-> 0]

\* Mutant: durations that are not positive are accepted.
StartValidation_NoSignCheck(work, brk) ==
    LET work_minutes == int(work)
        break_minutes == int(brk)
        Answer(code, status) ==
            [code |-> code, status |-> status, work |-> 0, brk |-> 0]
    IN  IF work = Absent \/ brk = Absent
        THEN Answer(400, "error_missing_duration")
        ELSE IF work_minutes.raised = "OverflowError"
        THEN Answer(500, "internal_server_error")
        ELSE IF work_minutes.raised # ""
        THEN Answer(400, "error_invalid_duration")
        ELSE IF break_minutes.raised = "OverflowError"
        THEN Answer(500, "internal_server_error")
        ELSE IF break_minutes.raised # ""
        THEN Answer(400, "error_invalid_duration")
        ELSE [code |-> 200, status |-> "", work |-> work_minutes.value,
              brk |-> break_minutes.value]

\* The input validation of api_start_timer: the status it answers with (""
\* when the input is accepted) and the durations it goes on with.  work is
\* converted before break; ValueError and TypeError are caught, any other
\* exception leaves the handler (HTTP 500 of the framework).
StartValidation(work, brk) ==
    LET work_minutes == int(work)
        break_minutes == int(brk)
        Answer(code, status) ==
            [code |-> code, status |-> status, work |-> 0, brk |-> 0]
    IN  IF work = Absent \/ brk = Absent
        THEN Answer(400, "error_missing_duration")
        ELSE IF work_minutes.raised = "OverflowError"
        THEN Answer(500, "internal_server_error")
        ELSE IF work_minutes.raised # ""
        THEN Answer(400, "error_invalid_duration")
        ELSE IF break_minutes.raised = "OverflowError"
        THEN Answer(500, "internal_server_error")
        ELSE IF break_minutes.raised # ""
        THEN Answer(400, "error_invalid_duration")
        ELSE IF work_minutes.value <= 0 \/ break_minutes.value <= 0
        THEN Answer(400, "error_invalid_duration")
        ELSE [code |-> 200, status |-> "", work |-> work_minutes.value,
              brk |-> break_minutes.value]

\* POST /api/timer/start {work, break}: validation and the clock reading.
StartRequest(r, u, work, brk) ==
    /\ FreeSlot(r)
    /\ LET v == StartValidation(work, brk)
       IN  IF v.code # 200
           THEN /\ response' = Resp(r, "start", v.code, v.status,
                                    NULL, NULL, NULL, NULL)
                /\ UNCHANGED req
           ELSE /\ Enter(r, u, "start", now, v.work, v.brk)
                /\ response' = NoResponse
    /\ UNCHANGED <<now, ticks, users, active_timers, sessions, userLock,
                   timerLock, points_per_minute, pause_log, evaluated,
                   reset_log>>

\* POST /api/timer/complete_phase {phase_completed}: the body must carry the
\* field.  Its value plays no part before the phase comparison, where
\* CompletePhase draws it.
CompleteRequest(r, u, has_phase_completed) ==
    /\ FreeSlot(r)
    /\ IF ~has_phase_completed
       THEN /\ response' = Resp(r, "complete", 400, "error_missing_phase",
                                NULL, NULL, NULL, NULL)
            /\ UNCHANGED req
       ELSE /\ Enter(r, u, "complete", now, 0, 0)
            /\ response' = NoResponse
    /\ UNCHANGED <<now, ticks, users, active_timers, sessions, userLock,
                   timerLock, points_per_minute, pause_log, evaluated,
                   reset_log>>

\* POST /api/timer/reset.
ResetRequest(r, u) ==
    /\ FreeSlot(r)
    /\ Enter(r, u, "reset", NULL, 0, 0)
    /\ response' = NoResponse
    /\ UNCHANGED <<now, ticks, users, active_timers, sessions, userLock,
                   timerLock, points_per_minute, pause_log, evaluated,
                   reset_log>>

\* POST /api/timer/pause.
PauseRequest(r, u) ==
    /\ FreeSlot(r)
    /\ Enter(r, u, "pause", now, 0, 0)
    /\ response' = NoResponse
    /\ UNCHANGED <<now, ticks, users, active_timers, sessions, userLock,
                   timerLock, points_per_minute, pause_log, evaluated,
                   reset_log>>

\* POST /api/timer/resume.
ResumeRequest(r, u) ==
    /\ FreeSlot(r)
    /\ Enter(r, u, "resume", now, 0, 0)
    /\ response' = NoResponse
    /\ UNCHANGED <<now, ticks, users, active_timers, sessions, userLock,
                   timerLock, points_per_minute, pause_log, evaluated,
                   reset_log>>

\* Mutant: start computes its multiplier from the work duration alone.
LockUser_IgnoresBreak(r) ==
    LET q == req[r]
        u == q.user_id
    IN  /\ q.pc = "begun"
        /\ q.op \in {"start", "complete"}
        /\ RowLockFree(userLock[u])
        /\ userLock' = [userLock EXCEPT ![u] = r]
        /\ req' = [req EXCEPT
                     ![r].pc = "userLocked",
                     ![r].user = users[u],
                     ![r].mult = IF q.op = "start"
                                 THEN calculate_current_multiplier(
                                          users[u], u, q.work, 0, now)
                                 ELSE 0]
        /\ response' = NoResponse
        /\ UNCHANGED <<now, ticks, users, active_timers, sessions, timerLock,
                       points_per_minute, pause_log, evaluated,
                   reset_log>>

\* query(User).filter_by(id=user_id).with_for_update().first() of start and
\* complete_phase; start computes its multiplier right after.
LockUser(r) ==
    LET q == req[r]
        u == q.user_id
    IN  /\ q.pc = "begun"
        /\ q.op \in {"start", "complete"}
        /\ RowLockFree(userLock[u])
        /\ userLock' = [userLock EXCEPT ![u] = r]
        /\ req' = [req EXCEPT
                     ![r].pc = "userLocked",
                     ![r].user = users[u],
                     ![r].mult = IF q.op = "start"
                                 THEN calculate_current_multiplier(
                                          users[u], u, q.work, q.brk, now)
                                 ELSE 0]
        /\ response' = NoResponse
        /\ UNCHANGED <<now, ticks, users, active_timers, sessions, timerLock,
                       points_per_minute, pause_log, evaluated,
                   reset_log>>

\* Mutant: the timer SELECT does not wait for the holder of the row.
LockTimer_NoWait(r) ==
    LET q == req[r]
        u == q.user_id
    IN  /\ q.pc = IF q.op \in {"start", "complete"} THEN "userLocked" ELSE "begun"
        /\ q.op # "none"
        /\ timerLock' = [timerLock EXCEPT
                           ![u] = IF TimerRows(u) # {} THEN r ELSE @]
        /\ req' = [req EXCEPT ![r].pc = "timerLocked",
                              ![r].state = TimerRows(u)]
        /\ response' = NoResponse
        /\ UNCHANGED <<now, ticks, users, active_timers, sessions, userLock,
                       points_per_minute, pause_log, evaluated, reset_log>>

\* query(ActiveTimerState).filter_by(user_id=user_id).with_for_update()
\* .first(): waits while another transaction holds the row, locks the row it
\* finds and locks nothing when there is none.
LockTimer(r) ==
    LET q == req[r]
        u == q.user_id
    IN  /\ q.pc = IF q.op \in {"start", "complete"} THEN "userLocked" ELSE "begun"
        /\ q.op # "none"
        /\ TimerRows(u) = {} \/ RowLockFree(timerLock[u])
        /\ timerLock' = [timerLock EXCEPT
                           ![u] = IF TimerRows(u) # {} THEN r ELSE @]
        /\ req' = [req EXCEPT ![r].pc = "timerLocked",
                              ![r].state = TimerRows(u)]
        /\ response' = NoResponse
        /\ UNCHANGED <<now, ticks, users, active_timers, sessions, userLock,
                       points_per_minute, pause_log, evaluated,
                   reset_log>>

\* Mutant: the transaction ends without giving up the timer row.
Finish_KeepsTimerLock(r, o) ==
    /\ users' = o.users
    /\ active_timers' = o.active_timers
    /\ sessions' = o.sessions
    /\ response' = o.response
    /\ userLock' = [u \in DOMAIN userLock |->
                        IF userLock[u] = r THEN NoReq ELSE userLock[u]]
    /\ timerLock' = timerLock
    /\ req' = [req EXCEPT ![r] = IdleReq]
    /\ UNCHANGED <<now, ticks, points_per_minute>>

\* The end of a request: its writes are committed (or rolled back), its
\* transaction ends and with it its row locks.
Finish(r, o) ==
    /\ users' = o.users
    /\ active_timers' = o.active_timers
    /\ sessions' = o.sessions
    /\ response' = o.response
    /\ userLock' = [u \in DOMAIN userLock |->
                        IF userLock[u] = r THEN NoReq ELSE userLock[u]]
    /\ timerLock' = [u \in DOMAIN timerLock |->
                        IF timerLock[u] = r THEN NoReq ELSE timerLock[u]]
    /\ req' = [req EXCEPT ![r] = IdleReq]
    /\ UNCHANGED <<now, ticks, points_per_minute>>

StartTimer(r) ==
    /\ req[r].pc = "timerLocked" /\ req[r].op = "start"
    /\ Finish(r, api_start_timer(r))
    /\ UNCHANGED <<pause_log, evaluated, reset_log>>

CompletePhase(r, phase_completed) ==
    /\ req[r].pc = "timerLocked" /\ req[r].op = "complete"
    /\ Finish(r, api_complete_phase(r, phase_completed))
    /\ UNCHANGED <<pause_log, evaluated, reset_log>>

ResetTimer(r) ==
    /\ req[r].pc = "timerLocked" /\ req[r].op = "reset"
    /\ Finish(r, api_reset_timer(r))
    /\ UNCHANGED <<pause_log, evaluated, reset_log>>

PauseTimer(r) ==
    /\ req[r].pc = "timerLocked" /\ req[r].op = "pause"
    /\ Finish(r, api_pause_timer(r))
    /\ UNCHANGED <<pause_log, evaluated, reset_log>>

ResumeTimer(r) ==
    /\ req[r].pc = "timerLocked" /\ req[r].op = "resume"
    /\ Finish(r, api_resume_timer(r))
    /\ UNCHANGED <<pause_log, evaluated, reset_log>>

\* GET /api/timer/state: db.session.get(ActiveTimerState, user_id), no lock.
api_get_timer_state(u) ==
    [Resp(NoReq, "state", 200, IF TimerRows(u) = {} THEN "inactive" ELSE "active",
          NULL, NULL, NULL, NULL) EXCEPT !.timer = TimerRows(u)]

GetTimerState(u) ==
    /\ response' = api_get_timer_state(u)
    /\ UNCHANGED <<now, ticks, users, active_timers, sessions, req, userLock,
                   timerLock, points_per_minute, pause_log, evaluated,
                   reset_log>>

\* Time passes.  A request in flight answers within MaxLatency seconds of
\* its arrival.
Pass(d) ==
    /\ \A r \in Reqs : InFlight(r) => now + d - req[r].arrived <= MaxLatency
    /\ now' = now + d
    /\ ticks' = ticks + 1
    /\ response' = NoResponse
    /\ UNCHANGED <<users, active_timers, sessions, req, userLock, timerLock,
                   points_per_minute, pause_log, evaluated,
                   reset_log>>

\* The clock is followed for MaxTicks steps.
Tick(d) ==
    /\ ticks < MaxTicks
    /\ Pass(d)

Next ==
    \/ \E r \in Reqs, u \in Users, data \in StartInputs :
           StartRequest(r, u, data.work, data.brk)
    \/ \E r \in Reqs, u \in Users, has \in BOOLEAN : CompleteRequest(r, u, has)
    \/ \E r \in Reqs, u \in Users : ResetRequest(r, u)
    \/ \E r \in Reqs, u \in Users : PauseRequest(r, u)
    \/ \E r \in Reqs, u \in Users : ResumeRequest(r, u)
    \/ \E r \in Reqs : LockUser(r)
    \/ \E r \in Reqs : LockTimer(r)
    \/ \E r \in Reqs : StartTimer(r)
    \/ \E r \in Reqs, p \in PhaseInputs : CompletePhase(r, p)
    \/ \E r \in Reqs : ResetTimer(r)
    \/ \E r \in Reqs : PauseTimer(r)
    \/ \E r \in Reqs : ResumeTimer(r)
    \/ \E u \in Users : GetTimerState(u)
    \/ \E d \in TickSteps : Tick(d)

Spec == Init /\ [][Next]_vars

\* The application configured with any POINTS_PER_MINUTE: a usual value,
\* zero, or a value the handlers reject (anything that is not a number >= 0,
\* here a negative one).
InitConfig ==
    /\ now = 0
    /\ ticks = 0
    /\ users = [u \in Users |-> User]
    /\ active_timers = {}
    /\ sessions = <<>>
    /\ req = [r \in Reqs |-> IdleReq]
    /\ userLock = [u \in Users |-> NoReq]
    /\ timerLock = [u \in Users |-> NoReq]
    /\ response = NoResponse
    /\ points_per_minute \in ConfigInputs
    /\ pause_log = [u \in Users |-> NULL]
    /\ evaluated = NoEvaluation
    /\ reset_log = [r \in Reqs |-> ""]

\* Under the three configurations the clock is followed for ConfigTicks
\* steps.
TickConfig(d) ==
    /\ ticks < ConfigTicks
    /\ Pass(d)

NextConfig ==
    \/ \E r \in Reqs, u \in Users, data \in StartInputs :
           StartRequest(r, u, data.work, data.brk)
    \/ \E r \in Reqs, u \in Users, has \in BOOLEAN : CompleteRequest(r, u, has)
    \/ \E r \in Reqs, u \in Users : ResetRequest(r, u)
    \/ \E r \in Reqs, u \in Users : PauseRequest(r, u)
    \/ \E r \in Reqs, u \in Users : ResumeRequest(r, u)
    \/ \E r \in Reqs : LockUser(r)
    \/ \E r \in Reqs : LockTimer(r)
    \/ \E r \in Reqs : StartTimer(r)
    \/ \E r \in Reqs, p \in PhaseInputs : CompletePhase(r, p)
    \/ \E r \in Reqs : ResetTimer(r)
    \/ \E r \in Reqs : PauseTimer(r)
    \/ \E r \in Reqs : ResumeTimer(r)
    \/ \E u \in Users : GetTimerState(u)
    \/ \E d \in TickSteps : TickConfig(d)

SpecConfig == InitConfig /\ [][NextConfig]_vars

\* The same program with a history of the pauses: the answers of pause,
\* resume and reset also keep pause_log, which the program never reads.  The
\* clock is followed for ConfigTicks steps, as under SpecConfig.
PauseTimerLogged(r) ==
    /\ req[r].pc = "timerLocked" /\ req[r].op = "pause"
    /\ Finish(r, api_pause_timer(r))
    /\ pause_log' = [pause_log EXCEPT ![req[r].user_id] =
                        IF api_pause_timer(r).response.status = "pause_recorded"
                        THEN req[r].now_utc ELSE @]
    /\ UNCHANGED <<evaluated, reset_log>>

ResumeTimerLogged(r) ==
    /\ req[r].pc = "timerLocked" /\ req[r].op = "resume"
    /\ Finish(r, api_resume_timer(r))
    /\ pause_log' = [pause_log EXCEPT ![req[r].user_id] =
                        IF api_resume_timer(r).response.status = "resume_success"
                        THEN NULL ELSE @]
    /\ UNCHANGED <<evaluated, reset_log>>

ResetTimerLogged(r) ==
    /\ req[r].pc = "timerLocked" /\ req[r].op = "reset"
    /\ Finish(r, api_reset_timer(r))
    /\ pause_log' = [pause_log EXCEPT ![req[r].user_id] =
                        IF api_reset_timer(r).response.status = "reset_success"
                        THEN NULL ELSE @]
    /\ UNCHANGED <<evaluated, reset_log>>

NextPause ==
    \/ \E r \in Reqs, u \in Users, data \in StartInputs :
           StartRequest(r, u, data.work, data.brk)
    \/ \E r \in Reqs, u \in Users, has \in BOOLEAN : CompleteRequest(r, u, has)
    \/ \E r \in Reqs, u \in Users : ResetRequest(r, u)
    \/ \E r \in Reqs, u \in Users : PauseRequest(r, u)
    \/ \E r \in Reqs, u \in Users : ResumeRequest(r, u)
    \/ \E r \in Reqs : LockUser(r)
    \/ \E r \in Reqs : LockTimer(r)
    \/ \E r \in Reqs : StartTimer(r)
    \/ \E r \in Reqs, p \in PhaseInputs : CompletePhase(r, p)
    \/ \E r \in Reqs : ResetTimerLogged(r)
    \/ \E r \in Reqs : PauseTimerLogged(r)
    \/ \E r \in Reqs : ResumeTimerLogged(r)
    \/ \E u \in Users : GetTimerState(u)
    \/ \E d \in TickSteps : TickConfig(d)

SpecPause == Init /\ [][NextPause]_vars

\* The same program with a history of the races a reset wins against a
\* complete_phase: the answers of reset, complete_phase and start also keep
\* reset_log, which the program never reads.  The clock is followed for
\* ConfigTicks steps, as under SpecConfig.
ResetTimerRaced(r) ==
    /\ req[r].pc = "timerLocked" /\ req[r].op = "reset"
    /\ Finish(r, api_reset_timer(r))
    /\ reset_log' =
          [r2 \in Reqs |->
             IF r2 = r THEN ""
             ELSE IF /\ api_reset_timer(r).response.status = "reset_success"
                     /\ InFlight(r2)
                     /\ req[r2].op = "complete"
                     /\ req[r2].user_id = req[r].user_id
             THEN "raced"
             ELSE reset_log[r2]]
    /\ UNCHANGED <<pause_log, evaluated>>

CompletePhaseRaced(r, phase_completed) ==
    /\ req[r].pc = "timerLocked" /\ req[r].op = "complete"
    /\ Finish(r, api_complete_phase(r, phase_completed))
    /\ reset_log' = [reset_log EXCEPT
                        ![r] = IF @ = "raced" THEN "answered" ELSE ""]
    /\ UNCHANGED <<pause_log, evaluated>>

StartTimerRaced(r) ==
    /\ req[r].pc = "timerLocked" /\ req[r].op = "start"
    /\ Finish(r, api_start_timer(r))
    /\ reset_log' =
          [r2 \in Reqs |->
             IF r2 = r THEN ""
             ELSE IF /\ api_start_timer(r).response.status = "timer_started"
                     /\ req[r2].user_id = req[r].user_id
                     /\ reset_log[r2] = "raced"
             THEN ""
             ELSE reset_log[r2]]
    /\ UNCHANGED <<pause_log, evaluated>>

NextRace ==
    \/ \E r \in Reqs, u \in Users, data \in StartInputs :
           StartRequest(r, u, data.work, data.brk)
    \/ \E r \in Reqs, u \in Users, has \in BOOLEAN : CompleteRequest(r, u, has)
    \/ \E r \in Reqs, u \in Users : ResetRequest(r, u)
    \/ \E r \in Reqs, u \in Users : PauseRequest(r, u)
    \/ \E r \in Reqs, u \in Users : ResumeRequest(r, u)
    \/ \E r \in Reqs : LockUser(r)
    \/ \E r \in Reqs : LockTimer(r)
    \/ \E r \in Reqs : StartTimerRaced(r)
    \/ \E r \in Reqs, p \in PhaseInputs : CompletePhaseRaced(r, p)
    \/ \E r \in Reqs : ResetTimerRaced(r)
    \/ \E r \in Reqs : PauseTimer(r)
    \/ \E r \in Reqs : ResumeTimer(r)
    \/ \E u \in Users : GetTimerState(u)
    \/ \E d \in TickSteps : TickConfig(d)

SpecRace == Init /\ [][NextRace]_vars

\* Two registered users, each with requests of their own.
InitCross ==
    /\ now = 0
    /\ ticks = 0
    /\ users = [u \in AllUsers |-> User]
    /\ active_timers = {}
    /\ sessions = <<>>
    /\ req = [r \in Reqs |-> IdleReq]
    /\ userLock = [u \in AllUsers |-> NoReq]
    /\ timerLock = [u \in AllUsers |-> NoReq]
    /\ response = NoResponse
    /\ points_per_minute \in PointsPerMinuteValues
    /\ pause_log = [u \in AllUsers |-> NULL]
    /\ evaluated = NoEvaluation
    /\ reset_log = [r \in Reqs |-> ""]

\* With two users the clock is followed for CrossTicks steps.
TickCross(d) ==
    /\ ticks < CrossTicks
    /\ Pass(d)

NextCross ==
    \/ \E r \in Reqs, u \in AllUsers, data \in CrossInputs :
           StartRequest(r, u, data.work, data.brk)
    \/ \E r \in Reqs, u \in AllUsers : CompleteRequest(r, u, TRUE)
    \/ \E r \in Reqs, u \in AllUsers : ResetRequest(r, u)
    \/ \E r \in Reqs, u \in AllUsers : PauseRequest(r, u)
    \/ \E r \in Reqs, u \in AllUsers : ResumeRequest(r, u)
    \/ \E r \in Reqs : LockUser(r)
    \/ \E r \in Reqs : LockTimer(r)
    \/ \E r \in Reqs : StartTimer(r)
    \/ \E r \in Reqs, p \in PhaseInputs : CompletePhase(r, p)
    \/ \E r \in Reqs : ResetTimer(r)
    \/ \E r \in Reqs : PauseTimer(r)
    \/ \E r \in Reqs : ResumeTimer(r)
    \/ \E u \in AllUsers : GetTimerState(u)
    \/ \E d \in CrossSteps : TickCross(d)

SpecCross == InitCross /\ [][NextCross]_vars

\* The requests of one user with the scheduling the handlers run under: a
\* handler that can take its next step takes it (its thread is scheduled),
\* and a handler that waits for a row lock gets it when the lock is free
\* again and again (the database serves its lock waiters).
NextFair ==
    \/ \E r \in Reqs, u \in Users, data \in CrossInputs :
           StartRequest(r, u, data.work, data.brk)
    \/ \E r \in Reqs, u \in Users, has \in BOOLEAN : CompleteRequest(r, u, has)
    \/ \E r \in Reqs, u \in Users : ResetRequest(r, u)
    \/ \E r \in Reqs, u \in Users : PauseRequest(r, u)
    \/ \E r \in Reqs, u \in Users : ResumeRequest(r, u)
    \/ \E r \in Reqs : LockUser(r)
    \/ \E r \in Reqs : LockTimer(r)
    \/ \E r \in Reqs : StartTimer(r)
    \/ \E r \in Reqs, p \in PhaseInputs : CompletePhase(r, p)
    \/ \E r \in Reqs : ResetTimer(r)
    \/ \E r \in Reqs : PauseTimer(r)
    \/ \E r \in Reqs : ResumeTimer(r)
    \/ \E u \in Users : GetTimerState(u)
    \/ \E d \in CrossSteps : TickCross(d)

\* The step that ends the handler of request r.
AnswerStep(r) ==
    \/ StartTimer(r)
    \/ \E p \in PhaseInputs : CompletePhase(r, p)
    \/ ResetTimer(r)
    \/ PauseTimer(r)
    \/ ResumeTimer(r)

Fairness ==
    \A r \in Reqs :
        /\ SF_vars(LockUser(r))
        /\ SF_vars(LockTimer(r))
        /\ WF_vars(AnswerStep(r))

SpecFair == Init /\ [][NextFair]_vars /\ Fairness

\* An uninterrupted auto-chained run: a user with no earlier session starts
\* one timer, and the client completes every phase at the instant its end
\* time is reached; there is no pause, reset or second start, and one
\* request at a time.
NoRequestInFlight == \A r \in Reqs : ~InFlight(r)

ChainStart(r, u, data) ==
    /\ NoRequestInFlight
    /\ TimerRows(u) = {}
    /\ sessions = <<>>
    /\ StartRequest(r, u, data.work, data.brk)

ChainComplete(r, u) ==
    /\ NoRequestInFlight
    /\ \E t \in TimerRows(u) : now = t.end_time
    /\ CompleteRequest(r, u, TRUE)

\* The clock runs to the end time of the phase.
PassToEnd(u) ==
    /\ ticks < ChainTicks
    /\ NoRequestInFlight
    /\ \E t \in TimerRows(u) :
          /\ t.end_time > now
          /\ Pass(t.end_time - now)

NextChain ==
    \/ \E r \in Reqs, u \in Users, data \in ChainInputs : ChainStart(r, u, data)
    \/ \E r \in Reqs, u \in Users : ChainComplete(r, u)
    \/ \E r \in Reqs : LockUser(r)
    \/ \E r \in Reqs : LockTimer(r)
    \/ \E r \in Reqs : StartTimer(r)
    \/ \E r \in Reqs, p \in PhaseInputs : CompletePhase(r, p)
    \/ \E u \in Users : PassToEnd(u)

SpecChain == Init /\ [][NextChain]_vars

\* Mutant: the points are committed on their own before the rest fails.
FailedTransaction_PointsKept(r, o) ==
    Outcome(o.users, active_timers, sessions,
            Resp(r, req[r].op, 500, "error_database",
                 IF req[r].op = "complete"
                 THEN o.users[req[r].user_id].total_points ELSE NULL,
                 NULL, NULL, NULL))

\* A SQLAlchemyError raised inside the try block of api_start_timer or
\* api_complete_phase (by a SELECT, by a flush or by the commit), whatever
\* the handler had pending (o): the except branch rolls the transaction back
\* and answers 500, complete_phase with the total_points it reads again.
FailedTransaction(r, o) ==
    Outcome(users, active_timers, sessions,
            Resp(r, req[r].op, 500, "error_database",
                 IF req[r].op = "complete"
                 THEN users[req[r].user_id].total_points ELSE NULL,
                 NULL, NULL, NULL))

\* The storage fails under a start request: at one of its SELECTs (nothing
\* is pending yet) or at its commit.
StartTimerFails(r) ==
    /\ InFlight(r) /\ req[r].op = "start"
    /\ Finish(r, FailedTransaction(r,
                     IF req[r].pc = "timerLocked" THEN api_start_timer(r)
                     ELSE Rollback(NoResponse)))
    /\ UNCHANGED <<pause_log, evaluated, reset_log>>

\* The storage fails under a complete_phase request: at one of its SELECTs
\* (nothing is pending yet) or at its flush or commit.
CompletePhaseFails(r, phase_completed) ==
    /\ InFlight(r) /\ req[r].op = "complete"
    /\ Finish(r, FailedTransaction(r,
                     IF req[r].pc = "timerLocked"
                     THEN api_complete_phase(r, phase_completed)
                     ELSE Rollback(NoResponse)))
    /\ UNCHANGED <<pause_log, evaluated, reset_log>>

\* The program on a storage that may fail under start and complete_phase.
NextFailure ==
    \/ \E r \in Reqs, u \in Users, data \in StartInputs :
           StartRequest(r, u, data.work, data.brk)
    \/ \E r \in Reqs, u \in Users, has \in BOOLEAN : CompleteRequest(r, u, has)
    \/ \E r \in Reqs, u \in Users : ResetRequest(r, u)
    \/ \E r \in Reqs, u \in Users : PauseRequest(r, u)
    \/ \E r \in Reqs, u \in Users : ResumeRequest(r, u)
    \/ \E r \in Reqs : LockUser(r)
    \/ \E r \in Reqs : LockTimer(r)
    \/ \E r \in Reqs : StartTimer(r)
    \/ \E r \in Reqs : StartTimerFails(r)
    \/ \E r \in Reqs, p \in PhaseInputs : CompletePhase(r, p)
    \/ \E r \in Reqs, p \in PhaseInputs : CompletePhaseFails(r, p)
    \/ \E r \in Reqs : ResetTimer(r)
    \/ \E r \in Reqs : PauseTimer(r)
    \/ \E r \in Reqs : ResumeTimer(r)
    \/ \E u \in Users : GetTimerState(u)
    \/ \E d \in TickSteps : TickConfig(d)

SpecFailure == Init /\ [][NextFailure]_vars

\* The program on a database that holds a corrupt timer row of the user: a
\* row without end_time.  The handlers never write one and the column is
\* declared NOT NULL, so the row is there from elsewhere (a table created
\* before the declaration, a row written by hand); the user has completed a
\* work session or not.
InitCorrupt ==
    /\ now = 0
    /\ ticks = 0
    /\ \E points \in {0, 2640} :
          users = [u \in Users |-> [User EXCEPT !.total_points = points]]
    /\ \E phase \in {"work", "break"} :
          active_timers = {ActiveTimerState(u, phase, 0, NULL, 120, 1, 100) :
                             u \in Users}
    /\ sessions = <<>>
    /\ req = [r \in Reqs |-> IdleReq]
    /\ userLock = [u \in Users |-> NoReq]
    /\ timerLock = [u \in Users |-> NoReq]
    /\ response = NoResponse
    /\ points_per_minute \in PointsPerMinuteValues
    /\ pause_log = [u \in Users |-> NULL]
    /\ evaluated = NoEvaluation
    /\ reset_log = [r \in Reqs |-> ""]

SpecCorrupt == InitCorrupt /\ [][NextConfig]_vars

\* A new user who plans 30 minutes of work and 5 of break.
NextScenario ==
    \/ \E r \in Reqs, u \in Users, data \in ScenarioInputs :
           StartRequest(r, u, data.work, data.brk)
    \/ \E r \in Reqs, u \in Users : CompleteRequest(r, u, TRUE)
    \/ \E r \in Reqs, u \in Users : ResetRequest(r, u)
    \/ \E r \in Reqs : LockUser(r)
    \/ \E r \in Reqs : LockTimer(r)
    \/ \E r \in Reqs : StartTimer(r)
    \/ \E r \in Reqs, p \in PhaseInputs : CompletePhase(r, p)
    \/ \E r \in Reqs : ResetTimer(r)
    \/ \E u \in Users : GetTimerState(u)
    \/ \E d \in ScenarioSteps : Tick(d)

SpecScenario == Init /\ [][NextScenario]_vars

\* logic.py evaluated directly, for users with any streaks and ledger.  The
\* ledger rows are sessions logged before the points system (points_earned
\* NULL); a user with streaks has completed a session a minute ago.
InitLogic ==
    /\ now = EvaluationInstant
    /\ ticks = 0
    /\ \E c \in StreakInputs \cup {0}, d \in StreakInputs \cup {0} :
          /\ (c = 0) = (d = 0)
          /\ users = [u \in Users |->
                        IF c = 0 THEN User
                        ELSE [User EXCEPT
                                !.consecutive_sessions = c,
                                !.daily_streak = d,
                                !.last_session_timestamp = now - 60,
                                !.last_active_date = DateOf(now - 60)]]
    /\ active_timers = {}
    /\ \E log \in LedgerInputs :
          sessions = [i \in 1 .. Len(log) |->
                        PomodoroSession(1, log[i].work, 5, NULL,
                                        now - log[i].age)]
    /\ req = [r \in Reqs |-> IdleReq]
    /\ userLock = [u \in Users |-> NoReq]
    /\ timerLock = [u \in Users |-> NoReq]
    /\ response = NoResponse
    /\ points_per_minute \in PointsPerMinuteValues
    /\ pause_log = [u \in Users |-> NULL]
    /\ evaluated = NoEvaluation
    /\ reset_log = [r \in Reqs |-> ""]

\* calculate_current_multiplier and get_active_multiplier_rules are called
\* for user u and the planned durations work and brk.
Evaluate(u, work, brk) ==
    /\ evaluated' =
          [user_id |-> u,
           consecutive_sessions |-> users[u].consecutive_sessions,
           daily_streak |-> users[u].daily_streak,
           work |-> work, brk |-> brk,
           today_focus |-> today_focus(u, now),
           multiplier |-> calculate_current_multiplier(users[u], u, work, brk, now),
           rules |-> get_active_multiplier_rules(users[u], u, work, brk, now)]
    /\ UNCHANGED <<now, ticks, users, active_timers, sessions, req, userLock,
                   timerLock, response, points_per_minute, pause_log, reset_log>>

NextLogic ==
    \E u \in Users, work \in WorkMinuteInputs, brk \in BreakMinuteInputs :
        Evaluate(u, work, brk)

SpecLogic == InitLogic /\ [][NextLogic]_vars

\* update_streaks called directly, as api_complete_phase calls it for a work
\* completion at instant now, on a user who never completed a session or
\* whose last completion is at one of the offsets.  The two dates of a users
\* row are written together, so last_active_date is the day of
\* last_session_timestamp.
InitStreaks ==
    /\ now \in StreakInstants
    /\ ticks = 0
    /\ \/ users = [u \in Users |-> User]
       \/ \E off \in LastSessionOffsets, c \in StreakLengths, d \in StreakLengths :
             users = [u \in Users |->
                        [User EXCEPT !.consecutive_sessions = c,
                                     !.daily_streak = d,
                                     !.last_session_timestamp = now + off,
                                     !.last_active_date = DateOf(now + off)]]
    /\ active_timers = {}
    /\ sessions = <<>>
    /\ req = [r \in Reqs |-> IdleReq]
    /\ userLock = [u \in Users |-> NoReq]
    /\ timerLock = [u \in Users |-> NoReq]
    /\ response = NoResponse
    /\ points_per_minute \in PointsPerMinuteValues
    /\ pause_log = [u \in Users |-> NULL]
    /\ evaluated = NoEvaluation
    /\ reset_log = [r \in Reqs |-> ""]

\* update_streaks(user, now_utc) is called once for user u; the call's
\* arguments are kept in evaluated.
UpdateStreaks(u) ==
    /\ ticks = 0
    /\ ticks' = 1
    /\ evaluated' = [user_id |-> u, user |-> users[u], now_utc |-> now]
    /\ users' = [users EXCEPT ![u] = update_streaks(users[u], now)]
    /\ UNCHANGED <<now, active_timers, sessions, req, userLock, timerLock,
                   response, points_per_minute, pause_log, reset_log>>

NextStreaks == \E u \in Users : UpdateStreaks(u)

SpecStreaks == InitStreaks /\ [][NextStreaks]_vars

(***************************************************************************)
(* Vocabulary of the properties                                            *)
(***************************************************************************)
\* This step is the answer of request r, a request of kind op.
Answers(r, op) ==
    /\ req[r].pc = "timerLocked"
    /\ req[r].op = op
    /\ req'[r].pc = "idle"

\* The committed timer row of user u (when there is one).
StoredRow(u) == CHOOSE t \in TimerRows(u) : TRUE

\* The committed timer row of u is in the given phase and a completion that
\* read the clock at now_utc is not too early for it.
Completable(u, phase, now_utc) ==
    /\ TimerRows(u) # {}
    /\ StoredRow(u).phase = phase
    /\ now_utc >= StoredRow(u).end_time - 2

\* The timer rows of user u after the step, and the one there is.
TimersAfter(u) == {t \in active_timers' : t.user_id = u}
RowAfter(u) == CHOOSE t \in TimersAfter(u) : TRUE

\* Some start request of user u answers in this step.
StartAnswers(u) == \E r \in Reqs : Answers(r, "start") /\ req[r].user_id = u

\* The points the step adds to the total of user u.
PointsAdded(u) == users'[u].total_points - users[u].total_points

\* The tables are left as they are.
TablesUnchanged == UNCHANGED <<users, active_timers, sessions>>

\* The four streak columns of a users row.
Streaks(user) ==
    <<user.consecutive_sessions, user.daily_streak,
      user.last_active_date, user.last_session_timestamp>>

(***************************************************************************)
(* C1  No double award                                                     *)
(***************************************************************************)
\* C1: a complete_phase request awards work points only for a work phase
\* that is stored and over when the request answers, and then exactly once:
\* one ledger row is appended and total_points grows by
\* round(work_minutes * points_per_minute * stored multiplier).  Any other
\* complete_phase request appends nothing, and adds no points either unless
\* it completes a break that is over.  A complete_phase request of the same
\* user that is in flight when the award is made finds a break that is not
\* over for it, so of two concurrent requests against one finished work
\* timer exactly one awards and the other awards nothing.
C1_NoDoubleAward ==
    [][/\ \A r \in Reqs :
            Answers(r, "complete") =>
               LET u == req[r].user_id
               IN  IF Completable(u, "work", req[r].now_utc)
                   THEN /\ Len(sessions') = Len(sessions) + 1
                        /\ SubSeq(sessions', 1, Len(sessions)) = sessions
                        /\ users'[u].total_points = users[u].total_points
                             + RoundDiv(StoredRow(u).work_duration_minutes
                                          * points_per_minute
                                          * StoredRow(u).current_multiplier, 100)
                   ELSE /\ sessions' = sessions
                        /\ ~Completable(u, "break", req[r].now_utc)
                              => users'[u].total_points = users[u].total_points
       /\ \A first, other \in Reqs :
            (/\ Answers(first, "complete")
             /\ Completable(req[first].user_id, "work", req[first].now_utc)
             /\ other # first
             /\ InFlight(other)
             /\ req[other].op = "complete"
             /\ req[other].user_id = req[first].user_id)
            => /\ TimersAfter(req[first].user_id) # {}
               /\ RowAfter(req[first].user_id).phase = "break"
               /\ req'[other].now_utc
                     < RowAfter(req[first].user_id).end_time - 2
      ]_vars

\* Two complete_phase requests overlapped on a finished work timer: the one
\* answered too early read its clock after the work phase was over and no
\* later than the request that was awarded, and the ledger has one row.
C1_Witness ==
    \E u \in Users :
        /\ response.op = "complete"
        /\ response.status = "error_too_early"
        /\ TimerRows(u) # {}
        /\ StoredRow(u).phase = "break"
        /\ Len(sessions) = 1
        /\ users[u].total_points = 2640
        /\ LET read_at == StoredRow(u).end_time - response.remaining
           IN  /\ read_at >= sessions[1].timestamp
                               + sessions[1].work_duration * SecondsPerMinute - 2
               /\ read_at <= StoredRow(u).start_time

(***************************************************************************)
(* C2  Grace period                                                        *)
(***************************************************************************)
\* C2: a complete_phase request on a stored timer that read the clock
\* before end_time - 2 s is answered 400 with the seconds that remain and
\* the current total_points, and no table changes; one that read it at or
\* after end_time - 2 s is answered 200 and the stored phase is completed
\* (work becomes break, break becomes work).
C2_GraceBoundary ==
    [][\A r \in Reqs :
         LET u == req[r].user_id
         IN  Answers(r, "complete") /\ TimerRows(u) # {} =>
                IF req[r].now_utc < StoredRow(u).end_time - 2
                THEN /\ response'.code = 400
                     /\ response'.status = "error_too_early"
                     /\ response'.remaining = StoredRow(u).end_time - req[r].now_utc
                     /\ response'.total_points = users[u].total_points
                     /\ TablesUnchanged
                ELSE /\ response'.code = 200
                     /\ TimersAfter(u) # {}
                     /\ StoredRow(u).phase = "work"
                            => /\ RowAfter(u).phase = "break"
                               /\ response'.status = "break_started"
                     /\ StoredRow(u).phase = "break"
                            => /\ RowAfter(u).phase = "work"
                               /\ response'.status = "work_started"
      ]_vars

\* A completion arrived 3 s before the end of the stored phase and was
\* turned down.
C2_Witness ==
    /\ response.op = "complete"
    /\ response.code = 400
    /\ response.remaining = 3

(***************************************************************************)
(* C3  One timer row per user                                              *)
(***************************************************************************)
\* C3: a user never has two timer rows.  There is none at first, a row
\* appears only by a start and disappears only by a reset, a reset that
\* found a row leaves none, and a successful start leaves exactly the row
\* it describes, whether or not one was there.
C3_AtMostOneRow ==
    /\ active_timers = {}
    /\ [][\A u \in Users :
            /\ Cardinality(TimersAfter(u)) <= 1
            /\ TimerRows(u) = {} /\ TimersAfter(u) # {} => StartAnswers(u)
            /\ TimerRows(u) # {} /\ TimersAfter(u) = {} =>
                 \E r \in Reqs : Answers(r, "reset") /\ req[r].user_id = u
            /\ \A r \in Reqs :
                 req[r].user_id = u =>
                   /\ Answers(r, "reset") /\ response'.status = "reset_success"
                        => TimersAfter(u) = {}
                   /\ Answers(r, "start") /\ response'.code = 200 =>
                        TimersAfter(u) =
                          {[user_id |-> u, phase |-> "work",
                            start_time |-> req[r].now_utc,
                            end_time |-> req[r].now_utc + 60 * req[r].work,
                            work_duration_minutes |-> req[r].work,
                            break_duration_minutes |-> req[r].brk,
                            current_multiplier |-> response'.active_multiplier]}
         ]_vars

\* A start has overwritten the row of a running timer while another start
\* of the same user was in flight.
C3_Witness ==
    \E u \in Users, r \in Reqs :
        /\ response.status = "timer_started"
        /\ response.req # r
        /\ req[r].op = "start" /\ req[r].user_id = u /\ InFlight(r)
        /\ Cardinality(TimerRows(u)) = 1
        /\ StoredRow(u).start_time > 0
        /\ Len(sessions) = 1

(***************************************************************************)
(* C4  Work points use the multiplier locked in at phase start             *)
(***************************************************************************)
\* C4: a work completion awards round(work_minutes * points_per_minute * m)
\* with m the multiplier stored in the timer row, and while a work phase
\* lasts no step but a start changes the stored multiplier: m is the value
\* written when the phase began.
C4_WorkPointsLockedMultiplier ==
    [][\A u \in Users :
         /\ \A r \in Reqs :
              /\ Answers(r, "complete")
              /\ req[r].user_id = u
              /\ Completable(u, "work", req[r].now_utc)
              => /\ PointsAdded(u) =
                        RoundDiv(StoredRow(u).work_duration_minutes
                                   * points_per_minute
                                   * StoredRow(u).current_multiplier, 100)
                 /\ sessions' # <<>>
                 /\ sessions'[Len(sessions')].points_earned = PointsAdded(u)
         /\ (/\ TimerRows(u) # {} /\ TimersAfter(u) # {}
             /\ StoredRow(u).phase = "work" /\ RowAfter(u).phase = "work"
             /\ ~StartAnswers(u))
            => RowAfter(u).current_multiplier = StoredRow(u).current_multiplier
      ]_vars

\* A 120-minute work phase started at multiplier 2.2 has been completed and
\* paid 120 * 10 * 2.2 = 2640 points.
C4_Witness ==
    /\ response.status = "break_started"
    /\ response.active_multiplier = 220
    /\ sessions # <<>>
    /\ sessions[Len(sessions)].points_earned = 2640

(***************************************************************************)
(* C5  Breaks inherit the multiplier                                       *)
(***************************************************************************)
\* C5: a work completion leaves the stored multiplier as it is, no step but
\* a start changes it while the break lasts, and the break completion awards
\* round(break_minutes * points_per_minute * stored multiplier).
C5_BreakInheritsMultiplier ==
    [][\A u \in Users :
         /\ \A r \in Reqs :
              Answers(r, "complete") /\ req[r].user_id = u =>
                /\ Completable(u, "work", req[r].now_utc)
                     => /\ TimersAfter(u) # {}
                        /\ RowAfter(u).phase = "break"
                        /\ RowAfter(u).current_multiplier
                               = StoredRow(u).current_multiplier
                /\ Completable(u, "break", req[r].now_utc)
                     => PointsAdded(u) =
                            RoundDiv(StoredRow(u).break_duration_minutes
                                       * points_per_minute
                                       * StoredRow(u).current_multiplier, 100)
         /\ (/\ TimerRows(u) # {} /\ TimersAfter(u) # {}
             /\ StoredRow(u).phase = "break" /\ RowAfter(u).phase = "break"
             /\ ~StartAnswers(u))
            => RowAfter(u).current_multiplier = StoredRow(u).current_multiplier
      ]_vars

\* The 1-minute break after a work phase at multiplier 2.2 has been paid
\* 1 * 10 * 2.2 = 22 points (10 at the base rate): 2640 + 22 in total.
C5_Witness ==
    \E u \in Users :
        /\ response.status = "work_started"
        /\ response.total_points = 2662
        /\ users[u].total_points = 2662

(***************************************************************************)
(* C6  Work completion                                                     *)
(***************************************************************************)
\* C6: the step that completes a finished work phase adds the awarded points
\* to total_points, updates the streaks (last_session_timestamp and
\* last_active_date become the request's instant and day), appends exactly
\* one ledger row with the planned work minutes, the planned break minutes
\* and the points awarded, turns the timer row into a break from now to
\* now + break_minutes, and answers break_started with the new total and
\* the break's end time.
C6_WorkCompletion ==
    [][\A r \in Reqs :
         LET u == req[r].user_id
             n == req[r].now_utc
         IN  Answers(r, "complete") /\ Completable(u, "work", n) =>
               /\ users'[u].total_points >= users[u].total_points
               /\ users'[u].last_session_timestamp = n
               /\ users'[u].last_active_date = n \div 86400
               /\ users'[u].consecutive_sessions
                      \in {1, users[u].consecutive_sessions + 1}
               /\ Len(sessions') = Len(sessions) + 1
               /\ SubSeq(sessions', 1, Len(sessions)) = sessions
               /\ LET row == sessions'[Len(sessions')]
                  IN  /\ row.user_id = u
                      /\ row.work_duration = StoredRow(u).work_duration_minutes
                      /\ row.break_duration = StoredRow(u).break_duration_minutes
                      /\ row.points_earned = PointsAdded(u)
               /\ TimersAfter(u) =
                     {[StoredRow(u) EXCEPT
                         !.phase = "break",
                         !.start_time = n,
                         !.end_time = n + 60 * StoredRow(u).break_duration_minutes]}
               /\ response'.code = 200
               /\ response'.status = "break_started"
               /\ response'.total_points = users'[u].total_points
               /\ response'.end_time = RowAfter(u).end_time
      ]_vars

\* A 120-minute work phase has been completed at 7198: the break runs from
\* 7198 to 7258, the ledger has the row and the streaks are started.
C6_Witness ==
    \E u \in Users :
        /\ response.status = "break_started"
        /\ response.end_time = 7258
        /\ TimerRows(u) # {}
        /\ StoredRow(u).phase = "break"
        /\ StoredRow(u).start_time = 7198
        /\ Len(sessions) = 1
        /\ sessions[1].work_duration = 120
        /\ sessions[1].break_duration = 1
        /\ users[u].last_session_timestamp = 7198
        /\ users[u].consecutive_sessions = 1

(***************************************************************************)
(* C7  Break completion                                                    *)
(***************************************************************************)
\* C7: the step that completes a finished break keeps the timer row: it adds
\* the break points, turns the row into a work phase from now to
\* now + work_minutes with the multiplier that the user's streaks and ledger
\* give at that moment, and answers work_started; and every successful
\* completion keeps the row and flips its phase, so the phases alternate.
C7_BreakCompletion ==
    [][\A r \in Reqs :
         LET u == req[r].user_id
             n == req[r].now_utc
         IN  /\ Answers(r, "complete") /\ Completable(u, "break", n) =>
                  /\ PointsAdded(u) =
                        RoundDiv(StoredRow(u).break_duration_minutes
                                   * points_per_minute
                                   * StoredRow(u).current_multiplier, 100)
                  /\ TimersAfter(u) =
                        {[StoredRow(u) EXCEPT
                            !.phase = "work",
                            !.start_time = n,
                            !.end_time = n + 60 * StoredRow(u).work_duration_minutes,
                            !.current_multiplier =
                                calculate_current_multiplier(
                                    users[u], u,
                                    StoredRow(u).work_duration_minutes,
                                    StoredRow(u).break_duration_minutes, now)]}
                  /\ response'.code = 200
                  /\ response'.status = "work_started"
                  /\ response'.total_points = users'[u].total_points
                  /\ response'.end_time = RowAfter(u).end_time
                  /\ response'.active_multiplier = RowAfter(u).current_multiplier
             /\ Answers(r, "complete") /\ response'.code = 200 /\ TimerRows(u) # {} =>
                  /\ TimersAfter(u) # {}
                  /\ RowAfter(u).phase # StoredRow(u).phase
                  /\ RowAfter(u).phase \in {"work", "break"}
      ]_vars

\* The break after the first 120-minute work phase has been completed: the
\* next work phase runs at 2.3, the 2.2 of the last one plus the bonus for
\* the 120 minutes of focus now in today's ledger.
C7_Witness ==
    \E u \in Users :
        /\ response.status = "work_started"
        /\ response.active_multiplier = 230
        /\ TimerRows(u) # {}
        /\ StoredRow(u).phase = "work"
        /\ StoredRow(u).current_multiplier = 230
        /\ StoredRow(u).end_time = StoredRow(u).start_time + 7200

(***************************************************************************)
(* C8  Completion without a timer                                          *)
(***************************************************************************)
\* C8: a complete_phase request of a user who has no timer row is answered
\* acknowledged_no_state with the user's total_points, and no table changes.
C8_NoStateAcknowledged ==
    [][\A r \in Reqs :
         LET u == req[r].user_id
         IN  Answers(r, "complete") /\ TimerRows(u) = {} =>
               /\ response'.code = 200
               /\ response'.status = "acknowledged_no_state"
               /\ response'.total_points = users[u].total_points
               /\ TablesUnchanged
      ]_vars

\* A user who had earned 2640 points and then reset the timer sent a
\* completion.
C8_Witness ==
    \E u \in Users :
        /\ response.status = "acknowledged_no_state"
        /\ response.total_points = 2640
        /\ TimerRows(u) = {}
        /\ Len(sessions) = 1

(***************************************************************************)
(* C9  The client's phase is not trusted                                   *)
(***************************************************************************)
\* C9: whatever phase the client names, the step that answers a
\* complete_phase request leaves the tables and the response that any other
\* phase value would have left; an accepted completion answers by the stored
\* phase (break_started for work, work_started for break).
C9_ClientPhaseIgnored ==
    [][\A r \in Reqs :
         LET u == req[r].user_id
         IN  Answers(r, "complete") =>
               /\ \A p \in PhaseInputs :
                    /\ users' = api_complete_phase(r, p).users
                    /\ active_timers' = api_complete_phase(r, p).active_timers
                    /\ sessions' = api_complete_phase(r, p).sessions
                    /\ response' = api_complete_phase(r, p).response
               /\ response'.code = 200 /\ TimerRows(u) # {} =>
                    response'.status = IF StoredRow(u).phase = "work"
                                       THEN "break_started" ELSE "work_started"
      ]_vars

\* A completion has been accepted on a stored break: the step was taken for
\* "work", "break" and "coffee" alike.
C9_Witness ==
    \E u \in Users :
        /\ response.op = "complete"
        /\ response.status = "work_started"
        /\ TimerRows(u) # {}
        /\ StoredRow(u).phase = "work"
        /\ users[u].total_points = 2662

(***************************************************************************)
(* C10  Streaks change only on work completion                             *)
(***************************************************************************)
\* C10: a step changes a user's consecutive_sessions, daily_streak,
\* last_active_date or last_session_timestamp only if it is the answer
\* break_started of a complete_phase request of that user on a finished work
\* phase.
C10_StreaksOnlyOnWorkCompletion ==
    [][\A u \in Users :
         Streaks(users'[u]) # Streaks(users[u]) =>
            \E r \in Reqs :
               /\ Answers(r, "complete")
               /\ req[r].user_id = u
               /\ Completable(u, "work", req[r].now_utc)
               /\ response'.status = "break_started"
      ]_vars

\* A break has been completed after the work completion that set the
\* streaks: they still carry the instant of the work completion.
C10_Witness ==
    \E u \in Users :
        /\ response.status = "work_started"
        /\ TimerRows(u) # {}
        /\ users[u].consecutive_sessions = 1
        /\ users[u].daily_streak = 1
        /\ users[u].last_session_timestamp < StoredRow(u).start_time

(***************************************************************************)
(* C11  total_points never decreases                                       *)
(***************************************************************************)
\* C11: no step of any request (start, pause, resume, complete_phase, reset,
\* alone or interleaved with another request) lowers a user's total_points,
\* whatever POINTS_PER_MINUTE is configured: a usual value, zero or an
\* invalid one.
C11_TotalPointsMonotonic ==
    [][\A u \in Users : users'[u].total_points >= users[u].total_points]_vars

\* Under an invalid POINTS_PER_MINUTE a 120-minute work phase has been
\* completed for 0 points.
C11_Witness ==
    \E u \in Users :
        /\ points_per_minute < 0
        /\ response.status = "break_started"
        /\ response.total_points = 0
        /\ Len(sessions) = 1
        /\ sessions[1].work_duration = 120
        /\ sessions[1].points_earned = 0
        /\ users[u].total_points = 0

(***************************************************************************)
(* C12  Reset is idempotent                                                *)
(***************************************************************************)
\* C12: a reset's SELECT sees the user's stored timer row; a reset that
\* found one answers reset_success and leaves the user without a row, one
\* that found none answers no_state_to_reset and changes no table; when no
\* row is stored the answer is no_state_to_reset, so a reset right after a
\* reset changes nothing; and no reset changes the users or the ledger.
C12_ResetIdempotent ==
    [][\A r \in Reqs :
         LET u == req[r].user_id
         IN  /\ (req[r].op = "reset" /\ req[r].pc = "begun"
                   /\ req'[r].pc = "timerLocked")
                => req'[r].state = TimerRows(u)
             /\ Answers(r, "reset") =>
                  /\ response'.code = 200
                  /\ users' = users
                  /\ sessions' = sessions
                  /\ IF req[r].state # {}
                     THEN /\ response'.status = "reset_success"
                          /\ TimerRows(u) # {}
                          /\ TimersAfter(u) = {}
                          /\ active_timers' = active_timers \ TimerRows(u)
                     ELSE /\ response'.status = "no_state_to_reset"
                          /\ TablesUnchanged
                  /\ TimerRows(u) = {} =>
                          /\ response'.status = "no_state_to_reset"
                          /\ TablesUnchanged
      ]_vars

\* A user who had completed a work phase has no row any more (a reset took
\* the break's row away) and a further reset found nothing: the points are
\* what they were.
C12_Witness ==
    \E u \in Users :
        /\ response.op = "reset"
        /\ response.status = "no_state_to_reset"
        /\ TimerRows(u) = {}
        /\ Len(sessions) = 1
        /\ users[u].total_points = 2640

(***************************************************************************)
(* C13  Pause, resume and reset leave points, streaks and ledger alone     *)
(***************************************************************************)
\* C13: no step of a pause, resume or reset request (its entry, its SELECT,
\* its answer, whatever the answer) changes the users table (total_points
\* and the four streak columns) or the ledger.
C13_PauseResumeResetFrame ==
    [][\A r \in Reqs :
         (/\ req'[r] # req[r]
          /\ \/ req[r].op \in {"pause", "resume", "reset"}
             \/ req'[r].op \in {"pause", "resume", "reset"})
         => /\ users' = users
            /\ sessions' = sessions
      ]_vars

\* A pause has been answered for a user who holds points and streaks.
C13_Witness ==
    \E u \in Users :
        /\ response.op = "pause"
        /\ response.status = "pause_recorded"
        /\ users[u].total_points = 2640
        /\ users[u].consecutive_sessions = 1
        /\ users[u].daily_streak = 1
        /\ Len(sessions) = 1

(***************************************************************************)
(* C14  Pause                                                              *)
(***************************************************************************)
\* C14: a pause whose SELECT found the user's timer row answers
\* pause_recorded and leaves the row with the pause marker set to the
\* request's instant and with its phase, times, durations and multiplier as
\* they were; a pause that found no row answers 404 and changes no table.
C14_PauseRecordsMarker ==
    [][\A r \in Reqs :
         LET u == req[r].user_id
         IN  Answers(r, "pause") =>
               IF req[r].state # {}
               THEN /\ response'.code = 200
                    /\ response'.status = "pause_recorded"
                    /\ users' = users
                    /\ sessions' = sessions
                    /\ TimersAfter(u) # {}
                    /\ MappedColumns(RowAfter(u)) = MappedColumns(StoredRow(u))
                    /\ "pause_start_time" \in DOMAIN RowAfter(u)
                    /\ RowAfter(u).pause_start_time = req[r].now_utc
               ELSE /\ response'.code = 404
                    /\ response'.status = "no_active_state"
                    /\ TablesUnchanged
      ]_vars

(***************************************************************************)
(* C15  Resume after a pause                                               *)
(***************************************************************************)
\* C15: a resume whose SELECT found the timer row, after a pause of that
\* timer was answered pause_recorded at instant p, answers resume_success
\* with the new end time now + max(0, end - p), and leaves the row with
\* start = now, that end time, no pause marker, and its phase, durations and
\* multiplier as they were.
C15_ResumeAfterPause ==
    [][\A r \in Reqs :
         LET u == req[r].user_id
             n == req[r].now_utc
             left == StoredRow(u).end_time - pause_log[u]
             new_end_time == n + (IF left < 0 THEN 0 ELSE left)
         IN  (/\ Answers(r, "resume")
              /\ req[r].state # {}
              /\ pause_log[u] # NULL)
             => /\ response'.code = 200
                /\ response'.status = "resume_success"
                /\ response'.end_time = new_end_time
                /\ TimersAfter(u) # {}
                /\ MappedColumns(RowAfter(u)) =
                      [StoredRow(u) EXCEPT !.start_time = n,
                                           !.end_time = new_end_time]
                /\ \/ "pause_start_time" \notin DOMAIN RowAfter(u)
                   \/ RowAfter(u).pause_start_time = NULL
      ]_vars

(***************************************************************************)
(* C16  Resume without a pause                                             *)
(***************************************************************************)
\* C16: a resume whose SELECT found the timer row while no pause of that
\* timer is outstanding (never paused, or resumed since) answers
\* resume_no_pause_found with the row's end time and changes no table; a
\* resume that found no row answers 404 and changes no table.
C16_ResumeWithoutPause ==
    [][\A r \in Reqs :
         LET u == req[r].user_id
         IN  Answers(r, "resume") =>
               IF req[r].state = {}
               THEN /\ response'.code = 404
                    /\ response'.status = "no_active_state"
                    /\ TablesUnchanged
               ELSE pause_log[u] = NULL =>
                    /\ response'.code = 200
                    /\ response'.status = "resume_no_pause_found"
                    /\ response'.end_time = StoredRow(u).end_time
                    /\ TablesUnchanged
      ]_vars

(***************************************************************************)
(* C17  Start with invalid input                                           *)
(***************************************************************************)
\* A duration the request does not give as a positive whole number of
\* minutes: missing, not a number, or a number whose whole part is <= 0.
NotPositiveMinutes(x) ==
    \/ x.kind \in {"absent", "string", "null", "infinity"}
    \/ x.kind \in {"int", "float"} /\ x.num <= 0

\* C17: a start request whose work or break duration is missing, is not a
\* number or is not positive is answered 400 and changes nothing: the
\* tables are left as they are (an existing row keeps its columns, no row
\* is created) and no handler is entered.
C17_InvalidStartRejected ==
    [][\A r \in Reqs, u \in Users, data \in StartInputs :
         (/\ NotPositiveMinutes(data.work) \/ NotPositiveMinutes(data.brk)
          /\ StartRequest(r, u, data.work, data.brk))
         => /\ response'.code = 400
            /\ TablesUnchanged
            /\ req' = req
      ]_vars

RuleIds == DOMAIN MULTIPLIER_RULES

\* The 'condition' column of MULTIPLIER_RULES, read on the inputs of an
\* evaluation e.
RuleHolds(id, e) ==
    CASE id = "base" -> TRUE
      [] id = "focus25" -> e.work > 25
      [] id = "focus45" -> e.work > 45
      [] id = "focus60" -> e.work > 60
      [] id = "focus90" -> e.work > 90
      [] id = "consecutive3" -> e.consecutive_sessions >= 3
      [] id = "consecutive5" -> e.consecutive_sessions >= 5
      [] id = "consecutive10" -> e.consecutive_sessions >= 10
      [] id = "consecutive20" -> e.consecutive_sessions >= 20
      [] id = "daily3" -> e.daily_streak >= 3
      [] id = "daily7" -> e.daily_streak >= 7
      [] id = "daily14" -> e.daily_streak >= 14
      [] id = "daily30" -> e.daily_streak >= 30
      [] id = "dailyFocus120" -> e.today_focus >= 120
      [] id = "balancedBreak" ->
            e.work > 0 /\ e.brk > 0 /\ 100 * e.brk <= 20 * e.work
      [] OTHER -> FALSE

\* The sum of the MULTIPLIER_RULES bonuses of a set of rule ids.
RECURSIVE SumBonuses(_)
SumBonuses(ids) ==
    IF ids = {} THEN 0
    ELSE LET id == CHOOSE x \in ids : TRUE
         IN MULTIPLIER_RULES[id] + SumBonuses(ids \ {id})

\* C19: the multiplier is fully additive: for every planned work and break
\* duration, both streaks and today's focus total, the result is 1.0 plus the
\* sum of the bonuses of every rule of MULTIPLIER_RULES whose condition holds.
C19_FullyAdditive ==
    evaluated # NoEvaluation =>
        evaluated.multiplier =
            100 + SumBonuses({id \in RuleIds : RuleHolds(id, evaluated)})

\* 5 consecutive sessions, a daily streak of 7 and 50 planned minutes: 1.9.
C19_Witness ==
    /\ evaluated.consecutive_sessions = 5
    /\ evaluated.daily_streak = 7
    /\ evaluated.work = 50
    /\ evaluated.brk = 0
    /\ evaluated.today_focus = 0
    /\ evaluated.multiplier = 190

\* C20: the active rule ids stay in lock-step with the multiplier: the set
\* always holds 'base', holds a rule id exactly when the rule's condition
\* holds, and the multiplier is 1.0 plus the sum of the bonuses of its ids.
C20_RulesLockStep ==
    evaluated # NoEvaluation =>
        /\ "base" \in evaluated.rules
        /\ evaluated.rules \subseteq RuleIds
        /\ \A id \in RuleIds :
              (id \in evaluated.rules) <=> RuleHolds(id, evaluated)
        /\ evaluated.multiplier = 100 + SumBonuses(evaluated.rules)

\* A balanced break on a day with 120 focus minutes behind: five ids, 1.5.
C20_Witness ==
    /\ evaluated.work = 50
    /\ evaluated.brk = 10
    /\ evaluated.today_focus = 120
    /\ evaluated.rules =
          {"base", "focus25", "focus45", "balancedBreak", "dailyFocus120"}
    /\ evaluated.multiplier = 150

(***************************************************************************)
(* C21, C22  update_streaks                                                *)
(***************************************************************************)
\* update_streaks has been called for user u.
StreaksUpdated(u) == ticks = 1 /\ evaluated.user_id = u

C22_ConsecutiveSessions ==
    \A u \in Users :
        StreaksUpdated(u) =>
            LET before == evaluated.user
                now_utc == evaluated.now_utc
            IN  /\ users[u].consecutive_sessions =
                       IF before.last_session_timestamp # NULL
                          /\ now_utc - before.last_session_timestamp <= 2 * 3600
                       THEN before.consecutive_sessions + 1
                       ELSE 1
                /\ users[u].last_session_timestamp = now_utc

\* A completion exactly two hours after the last one continues the streak.
C22_Witness ==
    \E u \in Users :
        /\ StreaksUpdated(u)
        /\ evaluated.now_utc - evaluated.user.last_session_timestamp = 7200
        /\ evaluated.user.consecutive_sessions = 2
        /\ users[u].consecutive_sessions = 3
        /\ users[u].last_session_timestamp = evaluated.now_utc

(***************************************************************************)
(* C23  complete_phase against a concurrent reset                          *)
(***************************************************************************)
\* C23: when a complete_phase and a reset of the same user run concurrently
\* and the reset commits first, the complete_phase finds no timer row and
\* answers acknowledged_no_state: no points, no ledger row, no streak change,
\* and no timer row afterwards.
C23_CompleteLosesToReset ==
    [][\A r \in Reqs :
          (Answers(r, "complete") /\ reset_log[r] = "raced") =>
              LET u == req[r].user_id
              IN  /\ req[r].state = {}
                  /\ response'.code = 200
                  /\ response'.status = "acknowledged_no_state"
                  /\ response'.total_points = users[u].total_points
                  /\ users' = users
                  /\ sessions' = sessions
                  /\ TimersAfter(u) = {}]_vars

\* A complete_phase that waited for a reset has answered; the user had
\* points, so the completion it lost was of a timer started again.
C23_Witness ==
    \E r \in Reqs, u \in Users :
        /\ reset_log[r] = "answered"
        /\ response.req = r
        /\ response.op = "complete"
        /\ response.status = "acknowledged_no_state"
        /\ response.total_points = users[u].total_points
        /\ users[u].total_points > 0
        /\ Len(sessions) = 1
        /\ TimerRows(u) = {}

LedgerOf(log, u) == SelectSeq(log, LAMBDA row : row.user_id = u)

\* The user a step of request slot r belongs to.
StepUser(r) == IF InFlight(r) THEN req[r].user_id ELSE req'[r].user_id

\* No other request of r's user is in flight.
AloneForUser(r) ==
    \A r2 \in Reqs \ {r} :
        InFlight(r2) => req[r2].user_id # req[r].user_id

\* C25: operations of one user never read, change or wait on another
\* user's data.  A step of a request of user a leaves every other user's
\* users row, timer row, ledger rows and row locks as they are; the
\* multiplier a start stores is the one of a's own streaks and a's own
\* ledger rows of today; and a request whose user has no other request in
\* flight can always take its next step, whatever the requests of other
\* users hold.
C25_UsersIndependent ==
    /\ [](\A r \in Reqs :
             (InFlight(r) /\ AloneForUser(r)) =>
                 \/ ENABLED LockUser(r)
                 \/ ENABLED LockTimer(r)
                 \/ req[r].pc = "timerLocked")
    /\ [][\A r \in Reqs :
             /\ req'[r] # req[r] =>
                   \A b \in AllUsers \ {StepUser(r)} :
                       /\ users'[b] = users[b]
                       /\ TimersAfter(b) = TimerRows(b)
                       /\ LedgerOf(sessions', b) = LedgerOf(sessions, b)
                       /\ userLock'[b] = userLock[b]
                       /\ timerLock'[b] = timerLock[b]
             /\ (Answers(r, "start")
                    /\ response'.status = "timer_started") =>
                   LET a == req[r].user_id
                       own == LedgerOf(sessions, a)
                       focus == SumWork(own, a, (now \div 86400) * 86400)
                   IN  response'.active_multiplier =
                           100 + DurationBonus(req[r].work)
                               + BalancedBreakBonus(req[r].work, req[r].brk)
                               + ConsecutiveBonus(users[a].consecutive_sessions)
                               + DailyBonus(users[a].daily_streak)
                               + (IF focus >= 120 THEN 10 ELSE 0)]_vars

\* User 2 starts a timer while a request of user 1 holds user 1's rows, on a
\* day on which user 1 has logged 120 minutes and user 2 nothing.
C25_Witness ==
    /\ response.op = "start"
    /\ response.status = "timer_started"
    /\ response.active_multiplier = 220
    /\ \E r \in Reqs : userLock[1] = r /\ timerLock[1] = r
    /\ LedgerOf(sessions, 1) # <<>>
    /\ LedgerOf(sessions, 2) = <<>>
    /\ users[1].total_points = 2640
    /\ users[2].total_points = 0
    /\ TimerRows(2) # {}

(***************************************************************************)
(* C26  Persistence failures                                               *)
(***************************************************************************)
\* Request r answers in this step with the given HTTP code.
AnswersWith(r, op, code) ==
    /\ InFlight(r)
    /\ req[r].op = op
    /\ req'[r].pc = "idle"
    /\ response'.req = r
    /\ response'.code = code

ReadCorruptRow(r) ==
    /\ req[r].state # {}
    /\ \A t \in req[r].state : t.end_time = NULL

\* C27: complete_phase and resume on a timer row whose end time is missing
\* delete the row and fail with the Inconsistent error (HTTP 500): no points,
\* no streak change, no ledger row, and the user has no timer afterwards.
C27_InconsistentRow ==
    [][\A r \in Reqs :
          ((Answers(r, "complete") \/ Answers(r, "resume"))
             /\ ReadCorruptRow(r)) =>
              LET u == req[r].user_id
              IN  /\ response'.code = 500
                  /\ response'.status = "error_inconsistent"
                  /\ users' = users
                  /\ sessions' = sessions
                  /\ TimersAfter(u) = {}
                  /\ api_get_timer_state(u)'.status = "inactive"]_vars

\* A resume has found the corrupt row and removed it.
C27_Witness ==
    \E u \in Users :
        /\ response.op = "resume"
        /\ response.code = 500
        /\ response.status = "error_inconsistent"
        /\ TimerRows(u) = {}
        /\ users[u].total_points = 2640
        /\ sessions = <<>>

(***************************************************************************)
(* C28  Repeated complete_phase and reset                                  *)
(***************************************************************************)
\* Request r is a complete_phase for a work phase and the row it has read
\* is in its break: a break row is written by a successful work completion
\* only, so the work completion of this timer has succeeded already and r
\* repeats it.
RepeatsWorkCompletion(r) ==
    /\ CompletePhase(r, "work")
    /\ req[r].state # {}
    /\ \A t \in req[r].state : t.phase = "break"

\* Request r is a reset and finds no row: the reset of the timer has
\* succeeded already (or there never was a timer).
RepeatsReset(r) ==
    /\ Answers(r, "reset")
    /\ req[r].state = {}

\* The repeated request r has read the clock before the end, less the grace
\* period, of the phase that the first completion started.
BeforeNextPhaseEnds(r) ==
    \A t \in req[r].state : req[r].now_utc < t.end_time - 2

\* C28 as stated: repeating a complete_phase or a reset after that same
\* request has succeeded is a safe no-op: the repeated complete_phase awards
\* no further points, appends no ledger row, changes no streak and makes no
\* further phase transition, and the repeated reset changes nothing.
C28_RepeatIsNoOp ==
    [][\A r \in Reqs :
          (RepeatsWorkCompletion(r) \/ RepeatsReset(r)) => TablesUnchanged]_vars

\* C28 amended: the repeated complete_phase is a no-op as long as it reads
\* the clock before the end (less the grace period) of the phase that the
\* first completion started: it is answered 400 too early with the stored
\* total_points.  (Later than that it completes the break.)  The repeated
\* reset changes nothing and is answered no_state_to_reset.
C28_PromptRepeatIsNoOp ==
    [][\A r \in Reqs :
          /\ (RepeatsWorkCompletion(r) /\ BeforeNextPhaseEnds(r)) =>
                /\ TablesUnchanged
                /\ response'.code = 400
                /\ response'.status = "error_too_early"
                /\ response'.total_points = users[req[r].user_id].total_points
          /\ RepeatsReset(r) =>
                /\ TablesUnchanged
                /\ response'.code = 200
                /\ response'.status = "no_state_to_reset"]_vars

\* A work completion has been repeated one second after it succeeded: the
\* award, the ledger row and the break it started are as it left them.
C28_Witness ==
    \E u \in Users :
        /\ response.op = "complete"
        /\ response.status = "error_too_early"
        /\ response.total_points = 2640
        /\ response.remaining = 59
        /\ users[u].total_points = 2640
        /\ Len(sessions) = 1
        /\ StoredRow(u).phase = "break"
        /\ StoredRow(u).start_time = users[u].last_session_timestamp
        /\ now = StoredRow(u).start_time + 1

(***************************************************************************)
(* C29  The 30/5 scenario                                                  *)
(***************************************************************************)
\* The scenario with its numbers left open: a new user (no points, no
\* streaks, empty ledger) who starts a 30-minute work / 5-minute break timer
\* with 10 points per minute gets the multiplier mult; completing the work
\* phase awards points, total_points becomes points, one ledger row with
\* work_duration 30 and points_earned points is recorded, and the timer moves
\* to a break that ends 5 minutes later, the multiplier still mult.
ScenarioStep(mult, points) ==
    \A r \in Reqs :
        LET u == req[r].user_id
        IN  /\ (/\ Answers(r, "start")
                /\ response'.status = "timer_started"
                /\ users[u] = User /\ sessions = <<>>
                /\ req[r].work = 30 /\ req[r].brk = 5) =>
                  /\ response'.active_multiplier = mult
                  /\ RowAfter(u).phase = "work"
                  /\ RowAfter(u).current_multiplier = mult
                  /\ RowAfter(u).end_time = req[r].now_utc + 30 * 60
            /\ (/\ Answers(r, "complete")
                /\ response'.status = "break_started"
                /\ users[u] = User /\ sessions = <<>>
                /\ points_per_minute = 10
                /\ StoredRow(u).work_duration_minutes = 30
                /\ StoredRow(u).break_duration_minutes = 5) =>
                  /\ req[r].now_utc >= StoredRow(u).end_time - 2
                  /\ PointsAdded(u) = points
                  /\ users'[u].total_points = points
                  /\ response'.total_points = points
                  /\ Len(sessions') = 1
                  /\ sessions'[1].user_id = u
                  /\ sessions'[1].work_duration = 30
                  /\ sessions'[1].points_earned = points
                  /\ RowAfter(u).phase = "break"
                  /\ RowAfter(u).end_time = req[r].now_utc + 5 * 60
                  /\ RowAfter(u).current_multiplier = mult
                  /\ response'.active_multiplier = mult

\* C29 as stated: the multiplier is 1.1 (focus25 only) and the work phase
\* awards 330 points.
C29_EndToEnd == [][ScenarioStep(110, 330)]_vars

\* C29 amended: a break of 5 minutes is at most 20% of 30 minutes of work, so
\* balancedBreak applies as well as focus25: the multiplier is 1.2 and the
\* work phase awards round(30 * 10 * 1.2) = 360 points.
C29_EndToEndBalanced == [][ScenarioStep(120, 360)]_vars

\* The new user has completed the work phase two seconds before its end.
C29_Witness ==
    \E u \in Users :
        /\ response.op = "complete"
        /\ response.status = "break_started"
        /\ response.total_points = 360
        /\ response.active_multiplier = 120
        /\ users[u].total_points = 360
        /\ Len(sessions) = 1
        /\ sessions[1].work_duration = 30
        /\ sessions[1].points_earned = 360
        /\ StoredRow(u).phase = "break"
        /\ StoredRow(u).start_time = 1798
        /\ StoredRow(u).end_time = 1798 + 300
        /\ StoredRow(u).current_multiplier = 120

(***************************************************************************)
(* C30  The ledger is append-only, one row per work completion             *)
(***************************************************************************)
\* A work completion of user u succeeds in this step.
WorkCompletes(u) ==
    \E r \in Reqs :
        /\ Answers(r, "complete")
        /\ req[r].user_id = u
        /\ response'.code = 200
        /\ response'.status = "break_started"

\* C30: the ledger starts empty, and every step keeps the rows there are, in
\* their order; a step in which a work completion of a user succeeds adds
\* exactly one row for that user (the completed phase, with the points it
\* paid), and every other step (break completions, starts, resets, pauses,
\* resumes, failed and refused requests) leaves the user's rows as they are.
\* So the number of a user's rows is the number of that user's successful
\* work completions in every reachable state.
C30_LedgerAppendOnly ==
    [][/\ Len(sessions') >= Len(sessions)
       /\ SubSeq(sessions', 1, Len(sessions)) = sessions
       /\ Len(sessions') <= Len(sessions) + 1
       /\ \A u \in Users :
             LET before == LedgerOf(sessions, u)
                 after == LedgerOf(sessions', u)
             IN  IF WorkCompletes(u)
                 THEN /\ Len(after) = Len(before) + 1
                      /\ after[Len(after)].points_earned = PointsAdded(u)
                      /\ after[Len(after)].work_duration
                            = StoredRow(u).work_duration_minutes
                 ELSE after = before]_vars

\* A break completion has answered after a work completion of the same
\* timer: the ledger holds the one row of the work phase.
C30_Witness ==
    /\ response.op = "complete"
    /\ response.code = 200
    /\ response.status = "work_started"
    /\ Len(sessions) = 1
    /\ sessions[1].points_earned > 0

(***************************************************************************)
(* C31  Multipliers are at least 1.0                                       *)
(***************************************************************************)
\* C31: in every reachable state the multiplier of every stored timer row is
\* at least 1.0 (100 hundredths), and so is every multiplier in a response:
\* the active_multiplier of start, break_started and work_started, and the
\* multiplier of the row a state read returns.
C31_MultiplierAtLeastOne ==
    /\ \A t \in active_timers : t.current_multiplier >= 100
    /\ response.active_multiplier # NULL => response.active_multiplier >= 100
    /\ \A t \in response.timer : t.current_multiplier >= 100
    /\ response.status \in {"timer_started", "break_started", "work_started"}
          => response.active_multiplier # NULL

\* A break completion has returned the multiplier of the next work phase,
\* which is the one stored.
C31_Witness ==
    \E u \in Users :
        /\ response.op = "complete"
        /\ response.status = "work_started"
        /\ TimerRows(u) # {}
        /\ StoredRow(u).phase = "work"
        /\ response.active_multiplier = StoredRow(u).current_multiplier
        /\ response.active_multiplier >= 100

(***************************************************************************)
(* C32  The end time is derived from the planned duration                  *)
(***************************************************************************)
\* The planned duration, in seconds, of the phase a timer row is in.
PlannedSeconds(t) ==
    (IF t.phase = "work" THEN t.work_duration_minutes
                         ELSE t.break_duration_minutes) * SecondsPerMinute

\* The step gives user u's timer a new phase: a start, or a phase change by
\* complete_phase, is answered.
BeginsPhase(u) ==
    \E r \in Reqs :
        /\ req[r].user_id = u
        /\ \/ Answers(r, "start") /\ response'.status = "timer_started"
           \/ Answers(r, "complete")
                 /\ response'.status \in {"break_started", "work_started"}

\* The step answers a resume of user u that found the timer row, after a
\* pause of the phase the row is in was answered pause_recorded.
ResumesPausedPhase(u) ==
    \E r \in Reqs :
        /\ Answers(r, "resume")
        /\ req[r].user_id = u
        /\ req[r].state # {}
        /\ TimerRows(u) # {}
        /\ pause_log[u] # NULL
        /\ pause_log[u] >= StoredRow(u).start_time

\* C32: every stored timer row has end >= start and end - start at most the
\* planned duration of its phase; a start and a phase change leave the row
\* with end - start equal to the planned duration of the new phase, and a
\* resume that follows a pause of the current phase leaves it with
\* end - start equal to the time that was left when the pause was made.
C32_EndFromPlannedDuration ==
    /\ [](\A t \in active_timers :
             /\ t.end_time >= t.start_time
             /\ t.end_time - t.start_time <= PlannedSeconds(t))
    /\ [][\A u \in Users :
            /\ BeginsPhase(u) =>
                  RowAfter(u).end_time - RowAfter(u).start_time
                      = PlannedSeconds(RowAfter(u))
            /\ ResumesPausedPhase(u) =>
                  /\ TimersAfter(u) # {}
                  /\ RowAfter(u).end_time - RowAfter(u).start_time
                        = (LET left == StoredRow(u).end_time - pause_log[u]
                           IN  IF left < 0 THEN 0 ELSE left)]_vars

C34_PhaseAndDurations ==
    /\ [](response.status # "error_invalid_phase")
    /\ [](\A t \in active_timers :
             /\ t.phase \in {"work", "break"}
             /\ t.work_duration_minutes \in Nat \ {0}
             /\ t.break_duration_minutes \in Nat \ {0})
    /\ [][\A u \in Users :
            (TimerRows(u) # {} /\ TimersAfter(u) # {} /\ ~StartAnswers(u)) =>
                /\ RowAfter(u).work_duration_minutes
                      = StoredRow(u).work_duration_minutes
                /\ RowAfter(u).break_duration_minutes
                      = StoredRow(u).break_duration_minutes]_vars

\* A complete_phase naming a phase that is neither work nor break is about
\* to act on a break that is over.
C34_Witness ==
    \E r \in Reqs :
        /\ req[r].pc = "timerLocked"
        /\ req[r].op = "complete"
        /\ req[r].state # {}
        /\ \A t \in req[r].state :
              t.phase = "break" /\ ~TooEarly(req[r].now_utc, t.end_time)
        /\ ENABLED CompletePhase(r, "coffee")

(***************************************************************************)
(* C35  No deadlock, every request answers                                 *)
(***************************************************************************)
\* A row lock is held by a request whose handler has taken it and has not
\* ended: the User row by a start or a complete_phase only, and a request
\* holds the timer row only after it took the User row if it takes one.
LocksHeldInOrder ==
    \A u \in Users :
        /\ userLock[u] # NoReq =>
              /\ req[userLock[u]].user_id = u
              /\ req[userLock[u]].op \in {"start", "complete"}
              /\ req[userLock[u]].pc \in {"userLocked", "timerLocked"}
        /\ timerLock[u] # NoReq =>
              /\ req[timerLock[u]].user_id = u
              /\ req[timerLock[u]].pc = "timerLocked"
              /\ req[timerLock[u]].op \in {"start", "complete"}
                    => userLock[u] = timerLock[u]

\* Some handler in flight can take its next step.
SomeHandlerCanStep ==
    \E r \in Reqs :
        \/ ENABLED LockUser(r)
        \/ ENABLED LockTimer(r)
        \/ ENABLED AnswerStep(r)

\* C35: the locks are taken in one order (User row, then timer row) and
\* held only by handlers in flight; whenever requests are in flight one of
\* them can take its next step (no deadlock); a request that has answered
\* holds no lock; and every request in flight eventually answers.
C35_NoDeadlockAllAnswer ==
    /\ [](LocksHeldInOrder)
    /\ []((\E r \in Reqs : InFlight(r)) => SomeHandlerCanStep)
    /\ [](\A r \in Reqs, u \in Users :
             ~InFlight(r) => userLock[u] # r /\ timerLock[u] # r)
    /\ \A r \in Reqs : InFlight(r) ~> ~InFlight(r)

\* A start holds the User row and waits for the timer row, which a request
\* that locks only the timer row holds.
C35_Witness ==
    \E r1, r2 \in Reqs, u \in Users :
        /\ r1 # r2
        /\ req[r1].op = "start"
        /\ req[r1].pc = "userLocked"
        /\ userLock[u] = r1
        /\ timerLock[u] = r2
        /\ req[r2].op \in {"pause", "resume", "reset"}
        /\ ~ENABLED LockTimer(r1)

(***************************************************************************)
(* C36  No pause marker from an earlier phase                              *)
(***************************************************************************)
\* No pause of the phase user u's timer is in has been recorded: there was
\* none, or the last one was before the phase began.
NoPauseInPhase(u) ==
    \/ pause_log[u] = NULL
    \/ pause_log[u] < StoredRow(u).start_time

\* C36: no stored timer row carries a pause marker left by an earlier phase
\* or timer (here: any marker while no pause of its phase is recorded), and
\* a resume that finds the row of a phase with no recorded pause answers
\* resume_no_pause_found with the row's end time and changes no table.
C36_NoStaleMarker ==
    /\ [](\A u \in Users :
             (TimerRows(u) # {} /\ NoPauseInPhase(u)) =>
                 \/ "pause_start_time" \notin DOMAIN StoredRow(u)
                 \/ StoredRow(u).pause_start_time = NULL)
    /\ [][\A r \in Reqs :
            LET u == req[r].user_id
            IN  (/\ Answers(r, "resume")
                 /\ req[r].state # {}
                 /\ TimerRows(u) # {}
                 /\ NoPauseInPhase(u)) =>
                    /\ response'.code = 200
                    /\ response'.status = "resume_no_pause_found"
                    /\ response'.end_time = StoredRow(u).end_time
                    /\ TablesUnchanged]_vars

(***************************************************************************)
(* C37  Paused time does not count                                         *)
(***************************************************************************)
\* The phase user u's timer is in is paused: a pause of it was answered
\* pause_recorded and no resume has succeeded since.
PausedInPhase(u) ==
    /\ TimerRows(u) # {}
    /\ pause_log[u] # NULL
    /\ pause_log[u] > StoredRow(u).start_time

\* C37: paused time does not count toward a phase; in particular a
\* complete_phase answered while the phase is paused (paused, not yet
\* resumed) awards nothing, changes no phase and adds no ledger row.
C37_PausedTimeNotCounted ==
    [][\A r \in Reqs :
         LET u == req[r].user_id
         IN  (Answers(r, "complete") /\ PausedInPhase(u)) =>
                 /\ PointsAdded(u) = 0
                 /\ sessions' = sessions
                 /\ response'.status \notin {"break_started", "work_started"}
      ]_vars

C39_StreakCountsCompletions ==
    \A u \in Users :
        Len(LedgerOf(sessions, u)) >= 1 =>
            users[u].consecutive_sessions = Len(LedgerOf(sessions, u))

\* C39 amended: two consecutive work completions of the run are one break
\* and one work phase apart, so consecutive_sessions is k after the k-th
\* work completion when work and break together are at most 120 minutes,
\* and 1 after every work completion when they are longer.
C39_StreakNeedsShortCycle ==
    \A u \in Users :
        (Len(LedgerOf(sessions, u)) >= 1 /\ TimerRows(u) # {}) =>
            users[u].consecutive_sessions =
                IF StoredRow(u).work_duration_minutes
                      + StoredRow(u).break_duration_minutes
                          <= MAX_CONSISTENCY_GAP_HOURS * 60
                THEN Len(LedgerOf(sessions, u))
                ELSE 1

\* The third work completion of a run of 60 minutes of work and 60 of
\* break, five hours after the start: the completions are exactly two hours
\* apart.
C39_Witness ==
    \E u \in Users :
        /\ response.op = "complete"
        /\ response.status = "break_started"
        /\ Len(sessions) = 3
        /\ users[u].consecutive_sessions = 3
        /\ StoredRow(u).work_duration_minutes = 60
        /\ StoredRow(u).break_duration_minutes = 60
        /\ now = 5 * SecondsPerHour

(***************************************************************************)
(* C40  total_points and the ledger                                        *)
(***************************************************************************)
\* The sum of points_earned over the ledger rows of user u.
RECURSIVE SumPoints(_, _)
SumPoints(log, u) ==
    IF log = <<>> THEN 0
    ELSE (IF Head(log).user_id = u THEN Head(log).points_earned ELSE 0)
             + SumPoints(Tail(log), u)

\* Request r of user u is answered in this step with the given status.
CompletesWith(r, u, status) ==
    /\ Answers(r, "complete")
    /\ req[r].user_id = u
    /\ response'.code = 200
    /\ response'.status = status

\* C40: a user's total_points changes only in the step that answers a
\* successful complete_phase of that user.  A work completion adds the points
\* computed for the work phase, which are the points_earned of the ledger row
\* it appends; a break completion adds the points computed for the break
\* and leaves the ledger; both report the total they stored.  So for a user
\* who began with 0 points and an empty ledger, total_points is the sum of
\* the ledger plus the break awards, and never less than the ledger sum.
C40_PointsOnlyByCompletion ==
    /\ [](\A u \in Users :
             /\ SumPoints(sessions, u) >= 0
             /\ users[u].total_points >= SumPoints(sessions, u))
    /\ [][\A u \in Users :
            /\ users'[u].total_points # users[u].total_points =>
                  \E r \in Reqs :
                      \/ CompletesWith(r, u, "break_started")
                      \/ CompletesWith(r, u, "work_started")
            /\ \A r \in Reqs :
                  /\ CompletesWith(r, u, "break_started") =>
                        /\ PointsAdded(u) =
                              PointsEarned(StoredRow(u).work_duration_minutes,
                                           points_per_minute,
                                           StoredRow(u).current_multiplier)
                        /\ SumPoints(sessions', u) - SumPoints(sessions, u)
                              = PointsAdded(u)
                        /\ response'.total_points = users'[u].total_points
                  /\ CompletesWith(r, u, "work_started") =>
                        /\ PointsAdded(u) =
                              PointsEarned(StoredRow(u).break_duration_minutes,
                                           points_per_minute,
                                           StoredRow(u).current_multiplier)
                        /\ SumPoints(sessions', u) = SumPoints(sessions, u)
                        /\ response'.total_points = users'[u].total_points
         ]_vars

\* After one work phase (2640 points, in the ledger) and its break (22
\* points, not in the ledger) the total is 2662.
C40_Witness ==
    \E u \in Users :
        /\ response.op = "complete"
        /\ response.status = "work_started"
        /\ response.total_points = 2662
        /\ users[u].total_points = 2662
        /\ SumPoints(sessions, u) = 2640
        /\ Len(sessions) = 1

====
